---- MODULE Spec2Model ----
(***************************************************************************)
(* A model of the Aquacomputer hwmon drivers: the control-report           *)
(* transaction engine of aquacomputer_d5next.c (fetch, patch, checksum,    *)
(* write, acknowledge, under the device mutex and the inter-operation      *)
(* delay), the control accessors built on it, the older Octo driver's      *)
(* control path, and the freshness test of the telemetry snapshot in all   *)
(* four drivers.                                                           *)
(*                                                                         *)
(* Images are byte arrays of the size the driver allocates (0-based        *)
(* functions).  Time is one clock in microseconds; ktime_get() is the      *)
(* clock, jiffies is the clock divided by the tick length.                 *)
(***************************************************************************)
EXTENDS Integers, Sequences, FiniteSets, TLC

\* ------------------------------------------------------------------------
\* Bounds of the model
\* ------------------------------------------------------------------------
\* Caller threads that may be inside the driver at once.
NumThreads == 2
\* Accessor calls each thread may make.
MaxCalls == 1
MaxSeqCalls == 2
\* Seeds of the byte patterns the device's control image starts from.
MaxSeed == 0
\* Clock ticks per second of jiffies (the kernel's HZ).
HZ == 100
\* The clock stops advancing by itself after this many Tick steps.
MaxTicks == 2
MaxElapse == 3
MaxProbeAge == 1
TickUs == 150500
InitNow == 1000000
NumChannels == 2

\* ------------------------------------------------------------------------
\* Program constants
\* ------------------------------------------------------------------------
ENODATA == 61
EINVAL == 22
EOPNOTSUPP == 95
EIO == 5
EPIPE == 32

STATUS_REPORT_ID == 1
CTRL_REPORT_ID == 3
AQUAERO_CTRL_REPORT_ID == 11
CTRL_REPORT_DELAY == 200
SECONDARY_CTRL_REPORT_ID == 2
SECONDARY_CTRL_REPORT_SIZE == 11
secondary_ctrl_report == <<2, 0, 0, 0, 2, 0, 0, 0, 0, 52, 198>>
AQUAERO_SECONDARY_CTRL_REPORT_ID == 6
AQUAERO_SECONDARY_CTRL_REPORT_SIZE == 7
aquaero_secondary_ctrl_report == <<6, 0, 2, 0, 0, 0, 0>>
AQUASTREAMXT_SECONDARY_CTRL_REPORT_ID == 2
AQUASTREAMXT_SECONDARY_CTRL_REPORT_SIZE == 4
aquastreamxt_secondary_ctrl_report == <<2, 5, 0, 0>>

AQC_8 == 0
AQC_BE16 == 1
AQC_LE16 == 2
\* A value of the type argument that is none of the three above.
AQC_TYPE_OTHER == 3

FAN_CURVE_HOLD_MIN_POWER_BIT_POS == 1
FAN_CURVE_START_BOOST_BIT_POS == 2

AQUASTREAMXT_STATUS_REPORT_ID == 4
AQUASTREAMXT_CTRL_REPORT_ID == 6
POWERADJUST3_STATUS_REPORT_ID == 3
HIGHFLOW_STATUS_REPORT_ID == 2

AQC_SENSOR_SIZE == 2
AQC_SENSOR_NA == 32767
AQC_FAN_CTRL_PWM_OFFSET == 1
AQC_FAN_CTRL_TEMP_SELECT_OFFSET == 3
AQC_FAN_CTRL_TEMP_CURVE_START == 21
AQC_FAN_CTRL_PWM_CURVE_START == 53

AQUAERO_NUM_FANS == 4
AQUAERO_NUM_SENSORS == 8
AQUAERO_CTRL_REPORT_SIZE == 2707
AQUAERO_CTRL_PRESET_ID == 92
AQUAERO_CTRL_PRESET_SIZE == 2
AQUAERO_CTRL_PRESET_START == 1372
AQUAERO_TEMP_CTRL_OFFSET == 219
AQUAERO_FAN_CTRL_MIN_RPM_OFFSET == 0
AQUAERO_FAN_CTRL_MAX_RPM_OFFSET == 2
AQUAERO_FAN_CTRL_MIN_PWR_OFFSET == 4
AQUAERO_FAN_CTRL_MAX_PWR_OFFSET == 6
AQUAERO_FAN_CTRL_MODE_OFFSET == 15
AQUAERO_FAN_CTRL_SRC_OFFSET == 16
aquaero_ctrl_fan_offsets == <<524, 544, 564, 584>>

D5NEXT_NUM_FANS == 2
D5NEXT_NUM_SENSORS == 1
D5NEXT_CTRL_REPORT_SIZE == 809
D5NEXT_TEMP_CTRL_OFFSET == 45
d5next_ctrl_fan_offsets == <<150, 65>>
d5next_ctrl_fan_curve_hold_start_offsets == <<0, 47>>
d5next_ctrl_fan_curve_min_power_offsets == <<57, 48>>
d5next_ctrl_fan_curve_max_power_offsets == <<59, 50>>
d5next_ctrl_fan_curve_fallback_power_offsets == <<61, 52>>

FARBWERK360_NUM_SENSORS == 4
FARBWERK360_CTRL_REPORT_SIZE == 1666
FARBWERK360_TEMP_CTRL_OFFSET == 8

OCTO_NUM_FANS == 8
OCTO_NUM_SENSORS == 4
OCTO_CTRL_REPORT_SIZE == 1631
OCTO_TEMP_CTRL_OFFSET == 10
octo_ctrl_fan_offsets == <<90, 175, 260, 345, 430, 515, 600, 685>>
octo_ctrl_fan_curve_hold_start_offsets == <<18, 27, 36, 45, 54, 63, 72, 81>>
octo_ctrl_fan_curve_min_power_offsets == <<19, 28, 37, 46, 55, 64, 73, 82>>
octo_ctrl_fan_curve_max_power_offsets == <<21, 30, 39, 48, 57, 66, 75, 84>>
octo_ctrl_fan_curve_fallback_power_offsets == <<23, 32, 41, 50, 59, 68, 77, 86>>

QUADRO_NUM_FANS == 4
QUADRO_NUM_SENSORS == 4
QUADRO_CTRL_REPORT_SIZE == 961
QUADRO_TEMP_CTRL_OFFSET == 10
QUADRO_FLOW_PULSES_CTRL_OFFSET == 6
quadro_ctrl_fan_offsets == <<54, 139, 224, 309>>
quadro_ctrl_fan_curve_hold_start_offsets == <<18, 27, 36, 45>>
quadro_ctrl_fan_curve_min_power_offsets == <<19, 28, 37, 46>>
quadro_ctrl_fan_curve_max_power_offsets == <<21, 30, 39, 48>>
quadro_ctrl_fan_curve_fallback_power_offsets == <<23, 32, 41, 50>>

AQUASTREAMXT_NUM_FANS == 2
AQUASTREAMXT_NUM_SENSORS == 3
AQUASTREAMXT_PUMP_CONVERSION_CONST == 45000000
AQUASTREAMXT_FAN_CONVERSION_CONST == 5646000
AQUASTREAMXT_PUMP_MIN_RPM == 3000
AQUASTREAMXT_PUMP_MAX_RPM == 6000
AQUASTREAMXT_SENSOR_REPORT_SIZE == 66
AQUASTREAMXT_CTRL_REPORT_SIZE == 52
AQUASTREAMXT_PUMP_MODE_CTRL_OFFSET == 3
AQUASTREAMXT_PUMP_MODE_CTRL_MANUAL == 20
AQUASTREAMXT_FAN_MODE_CTRL_OFFSET == 26
AQUASTREAMXT_FAN_MODE_CTRL_MANUAL == 1
aquastreamxt_ctrl_fan_offsets == <<8, 27>>

\* aquacomputer_octo.c (the older, Octo-only driver)
OCTO_DRV_CTRL_REPORT_SIZE == 1631
OCTO_DRV_CTRL_REPORT_CHECKSUM_OFFSET == 1629
OCTO_DRV_CTRL_REPORT_CHECKSUM_START == 1
OCTO_DRV_CTRL_REPORT_CHECKSUM_LENGTH == 1628
octo_drv_ctrl_fan_offsets == <<91, 176, 261, 346, 431, 516, 601, 686>>

\* ------------------------------------------------------------------------
\* Integer and byte helpers (C conversions and the kernel's unaligned access)
\* ------------------------------------------------------------------------
Byte == 0..255
NoThread == 0
Threads == 1..NumThreads

\* (u8)v and (u16)v: reduction modulo the width.
u8(v) == v % 256
u16(v) == v % 65536
\* (s16)v of a 16-bit pattern.
s16(v) == IF u16(v) >= 32768 THEN u16(v) - 65536 ELSE u16(v)

get_unaligned_be16(buf, off) == buf[off] * 256 + buf[off + 1]
get_unaligned_le16(buf, off) == buf[off + 1] * 256 + buf[off]

\* A u32 is kept as its two 16-bit halves.
U32(hi, lo) == [hi |-> hi % 65536, lo |-> lo % 65536]
\* (u32)v for an int v
u32(v) == IF v >= 0 THEN U32(v \div 65536, v) ELSE U32(65535 - ((-v - 1) \div 65536), v)
\* x * k in 32-bit arithmetic, for a u16 x and a constant k
u32_mul(x, k) ==
    LET kl == k % 65536
        kh == k \div 65536
        pl == x * (kl % 256) + ((x * (kl \div 256)) % 256) * 256
        carry == (x * (kl \div 256)) \div 256 + pl \div 65536
    IN U32(x * kh + carry, pl)
get_unaligned_be32(buf, off) ==
    U32(get_unaligned_be16(buf, off), get_unaligned_be16(buf, off + 2))
put_unaligned_be16(v, buf, off) ==
    [buf EXCEPT ![off] = u16(v) \div 256, ![off + 1] = u16(v) % 256]
put_unaligned_le16(v, buf, off) ==
    [buf EXCEPT ![off] = u16(v) % 256, ![off + 1] = u16(v) \div 256]

\* The kernel's DIV_ROUND_CLOSEST for a positive divisor (C division
\* truncates toward zero).
DIV_ROUND_CLOSEST(x, d) ==
    IF x >= 0 THEN (x + d \div 2) \div d ELSE -(((-x) + d \div 2) \div d)

\* Exclusive or of two k-bit numbers.
RECURSIVE XorBits(_, _, _)
XorBits(x, y, k) ==
    IF k = 0 THEN 0
    ELSE ((x + y) % 2) + 2 * XorBits(x \div 2, y \div 2, k - 1)
Xor8 == [x \in Byte |-> [y \in Byte |-> XorBits(x, y, 8)]]

\* lib/crc16.c: the table of the reflected polynomial 0xA001 and the
\* byte-wise update crc16_byte(); crc16() folds it over buf[lo..hi].
RECURSIVE crc16_table_entry(_, _)
crc16_table_entry(c, k) ==
    IF k = 0 THEN c
    ELSE crc16_table_entry(IF c % 2 = 1 THEN XorBits(c \div 2, 40961, 16)
                                       ELSE c \div 2, k - 1)
crc16_table == [x \in Byte |-> crc16_table_entry(x, 8)]
crc16_byte(crc, data) ==
    LET t == crc16_table[Xor8[crc % 256][data]]
    IN  (t \div 256) * 256 + Xor8[crc \div 256][t % 256]
RECURSIVE crc16_range(_, _, _, _)
crc16_range(crc, buf, lo, hi) ==
    IF lo > hi THEN crc
    ELSE IF lo = hi THEN crc16_byte(crc, buf[lo])
    ELSE LET mid == (lo + hi) \div 2
             left == crc16_range(crc, buf, lo, mid)
         IN  IF left >= 0 THEN crc16_range(left, buf, mid + 1, hi) ELSE 0
crc16(crc, buf, start, len) == crc16_range(crc, buf, start, start + len - 1)

\* ------------------------------------------------------------------------
\* Unit conversions
\* ------------------------------------------------------------------------
\* aqc_percent_to_pwm() if the division truncated.
aqc_percent_to_pwm_truncating(val) == (u16(val) * 255) \div (100 * 100)
\* aqc_percent_to_pwm() if it scaled to 256 steps.
aqc_percent_to_pwm_256(val) == DIV_ROUND_CLOSEST(u16(val) * 256, 100 * 100)
aqc_percent_to_pwm(val) == DIV_ROUND_CLOSEST(u16(val) * 255, 100 * 100)
aqc_pwm_to_percent(val) == DIV_ROUND_CLOSEST(val * 100 * 100, 255)
\* DIV_ROUND_CLOSEST(x * 255, d) in the 64 bits of a long: the product is
\* taken on the quotient and on the remainder of x by d, which keeps every
\* intermediate value below 2^31.
aqc_aquastreamxt_rpm_to_pwm(val) ==
    LET x == val - AQUASTREAMXT_PUMP_MIN_RPM
        d == AQUASTREAMXT_PUMP_MAX_RPM - AQUASTREAMXT_PUMP_MIN_RPM
        a == IF x >= 0 THEN x ELSE -x
        q == (a \div d) * 255 + DIV_ROUND_CLOSEST((a % d) * 255, d)
    IN IF x >= 0 THEN q ELSE -q
aqc_aquastreamxt_pwm_to_rpm(val) ==
    DIV_ROUND_CLOSEST(val * 50, 255) * 60 + AQUASTREAMXT_PUMP_MIN_RPM
aqc_aquastreamxt_convert_pump_rpm(val) ==
    IF u16(val) > 0
    THEN DIV_ROUND_CLOSEST(AQUASTREAMXT_PUMP_CONVERSION_CONST, u16(val))
    ELSE 0
aqc_aquastreamxt_convert_fan_rpm(val) ==
    IF u16(val) > 0 THEN DIV_ROUND_CLOSEST(AQUASTREAMXT_FAN_CONVERSION_CONST, u16(val)) ELSE 0
octo_percent_to_pwm(val) == DIV_ROUND_CLOSEST(u16(val) * 255, 100 * 100)
octo_pwm_to_percent(val) == u16(DIV_ROUND_CLOSEST(u8(val) * 100 * 100, 255))

\* Sensor report layout (aquacomputer_d5next.c)
AQC_SERIAL_START == 3
AQC_FIRMWARE_VERSION == 13
AQC_POWER_CYCLES == 24
AQC_FAN_VOLTAGE_OFFSET == 2
AQC_FAN_CURRENT_OFFSET == 4
AQC_FAN_POWER_OFFSET == 6
AQC_FAN_SPEED_OFFSET == 8
aqc_general_fan_structure ==
    [voltage |-> AQC_FAN_VOLTAGE_OFFSET, curr |-> AQC_FAN_CURRENT_OFFSET,
     power |-> AQC_FAN_POWER_OFFSET, speed |-> AQC_FAN_SPEED_OFFSET]
AQUAERO_SERIAL_START == 7
AQUAERO_FIRMWARE_VERSION == 11
AQUAERO_NUM_AQUABUS_SENSORS == 20
AQUAERO_NUM_VIRTUAL_SENSORS == 8
AQUAERO_NUM_CALC_VIRTUAL_SENSORS == 4
AQUAERO_NUM_AQUABUS_FLOW_SENSORS == 12
AQUAERO_SENSOR_START == 101
AQUAERO_VIRTUAL_SENSOR_START == 133
AQUAERO_CALC_VIRTUAL_SENSOR_START == 149
AQUAERO_AQUABUS_SENSOR_START == 157
AQUAERO_FLOW_SENSORS_START == 249
AQUAERO_AQUABUS_FLOW_SENSORS_START == 253
AQUAERO_FAN_VOLTAGE_OFFSET == 4
AQUAERO_FAN_CURRENT_OFFSET == 6
AQUAERO_FAN_POWER_OFFSET == 8
AQUAERO_FAN_SPEED_OFFSET == 0
aqc_aquaero_fan_structure ==
    [voltage |-> AQUAERO_FAN_VOLTAGE_OFFSET, curr |-> AQUAERO_FAN_CURRENT_OFFSET,
     power |-> AQUAERO_FAN_POWER_OFFSET, speed |-> AQUAERO_FAN_SPEED_OFFSET]
aquaero_sensor_fan_offsets == <<359, 371, 383, 395>>
D5NEXT_NUM_VIRTUAL_SENSORS == 8
D5NEXT_COOLANT_TEMP == 87
D5NEXT_PUMP_OFFSET == 108
D5NEXT_FAN_OFFSET == 95
D5NEXT_5V_VOLTAGE == 57
D5NEXT_12V_VOLTAGE == 55
D5NEXT_VIRTUAL_SENSORS_START == 63
d5next_sensor_fan_offsets == <<D5NEXT_PUMP_OFFSET, D5NEXT_FAN_OFFSET>>
AQUASTREAMULT_SENSOR_START == 45
AQUASTREAMULT_PUMP_OFFSET == 81
AQUASTREAMULT_PUMP_VOLTAGE == 61
AQUASTREAMULT_PUMP_CURRENT == 83
AQUASTREAMULT_PUMP_POWER == 85
AQUASTREAMULT_FAN_OFFSET == 65
AQUASTREAMULT_PRESSURE_OFFSET == 87
AQUASTREAMULT_FLOW_SENSOR_OFFSET == 55
AQUASTREAMULT_FAN_VOLTAGE_OFFSET == 2
AQUASTREAMULT_FAN_CURRENT_OFFSET == 0
AQUASTREAMULT_FAN_POWER_OFFSET == 4
AQUASTREAMULT_FAN_SPEED_OFFSET == 6
aqc_aquastreamult_fan_structure ==
    [voltage |-> AQUASTREAMULT_FAN_VOLTAGE_OFFSET, curr |-> AQUASTREAMULT_FAN_CURRENT_OFFSET,
     power |-> AQUASTREAMULT_FAN_POWER_OFFSET, speed |-> AQUASTREAMULT_FAN_SPEED_OFFSET]
aquastreamult_sensor_fan_offsets == <<AQUASTREAMULT_FAN_OFFSET>>
FARBWERK_SENSOR_START == 47
FARBWERK360_NUM_VIRTUAL_SENSORS == 16
FARBWERK360_SENSOR_START == 50
FARBWERK360_VIRTUAL_SENSORS_START == 58
OCTO_NUM_VIRTUAL_SENSORS == 16
OCTO_SENSOR_START == 61
OCTO_VIRTUAL_SENSORS_START == 69
octo_sensor_fan_offsets == <<125, 138, 151, 164, 177, 190, 203, 216>>
QUADRO_NUM_VIRTUAL_SENSORS == 16
QUADRO_SENSOR_START == 52
QUADRO_VIRTUAL_SENSORS_START == 60
QUADRO_FLOW_SENSOR_OFFSET == 110
quadro_sensor_fan_offsets == <<112, 125, 138, 151>>
HIGHFLOWNEXT_SENSOR_START == 85
HIGHFLOWNEXT_FLOW == 81
HIGHFLOWNEXT_WATER_QUALITY == 89
HIGHFLOWNEXT_POWER == 91
HIGHFLOWNEXT_CONDUCTIVITY == 95
HIGHFLOWNEXT_5V_VOLTAGE == 97
HIGHFLOWNEXT_5V_VOLTAGE_USB == 99
LEAKSHIELD_PRESSURE_ADJUSTED == 285
LEAKSHIELD_TEMPERATURE_1 == 265
LEAKSHIELD_TEMPERATURE_2 == 287
LEAKSHIELD_PRESSURE_MIN == 291
LEAKSHIELD_PRESSURE_TARGET == 293
LEAKSHIELD_PRESSURE_MAX == 295
LEAKSHIELD_PUMP_RPM_IN == 101
LEAKSHIELD_FLOW_IN == 111
LEAKSHIELD_RESERVOIR_VOLUME == 313
LEAKSHIELD_RESERVOIR_FILLED == 311
AQUASTREAMXT_SERIAL_START == 58
AQUASTREAMXT_FIRMWARE_VERSION == 50
AQUASTREAMXT_FAN_STOPPED == 4
AQUASTREAMXT_SENSOR_START == 13
AQUASTREAMXT_FAN_VOLTAGE_OFFSET == 7
AQUASTREAMXT_FAN_STATUS_OFFSET == 29
AQUASTREAMXT_PUMP_VOLTAGE_OFFSET == 9
AQUASTREAMXT_PUMP_CURR_OFFSET == 11
aquastreamxt_sensor_fan_offsets == <<19, 27>>
POWERADJUST3_SENSOR_START == 3
HIGHFLOW_FIRMWARE_VERSION == 3
HIGHFLOW_SERIAL_START == 9
HIGHFLOW_SENSOR_START == 43

\* Sensor report layout of aquacomputer_octo.c
OCTO_DRV_SERIAL_FIRST_PART == 3
OCTO_DRV_SERIAL_SECOND_PART == 5
OCTO_DRV_FIRMWARE_VERSION == 13
OCTO_DRV_NUM_SENSORS == 4
OCTO_DRV_SENSORS_START == 61
OCTO_DRV_SENSOR_SIZE == 2
OCTO_DRV_SENSOR_DISCONNECTED == 32767
OCTO_DRV_NUM_FANS == 8
OCTO_DRV_FAN_VOLTAGE_OFFSET == 2
OCTO_DRV_FAN_CURRENT_OFFSET == 4
OCTO_DRV_FAN_POWER_OFFSET == 6
OCTO_DRV_FAN_SPEED_OFFSET == 8
octo_drv_sensor_fan_offsets == <<125, 138, 151, 164, 177, 190, 203, 216>>

\* Sensor report layout of d5next.c
D5NEXT_SERIAL_START_OFFSET == 3
D5NEXT_SERIAL_PART_OFFSET == 5
D5NEXT_FIRMWARE_VERSION_OFFSET == 13
D5NEXT_POWER_CYCLES_OFFSET == 24
D5NEXT_COOLANT_TEMP_OFFSET == 87
D5NEXT_PUMP_SPEED_OFFSET == 116
D5NEXT_FAN_SPEED_OFFSET == 103
D5NEXT_PUMP_POWER_OFFSET == 114
D5NEXT_FAN_POWER_OFFSET == 101
D5NEXT_PUMP_VOLTAGE_OFFSET == 110
D5NEXT_FAN_VOLTAGE_OFFSET == 97
D5NEXT_5V_VOLTAGE_OFFSET == 57
D5NEXT_PUMP_CURRENT_OFFSET == 112
D5NEXT_FAN_CURRENT_OFFSET == 99

\* Sensor report layout of aquacomputer_farbwerk360.c
FARBWERK360_DRV_SERIAL_FIRST_PART == 3
FARBWERK360_DRV_SERIAL_SECOND_PART == 5
FARBWERK360_DRV_FIRMWARE_VERSION == 13
FARBWERK360_DRV_NUM_SENSORS == 4
FARBWERK360_DRV_SENSOR_START == 50
FARBWERK360_DRV_SENSOR_SIZE == 2
FARBWERK360_DRV_SENSOR_DISCONNECTED == 32767

\* Per-report fields of aquacomputer_d5next.c
SERIAL_PART_OFFSET == 2
AQUAERO_HARDWARE_VERSION == 15
AQUAERO_5_HW_VERSION == 5600
AQUAERO_6_HW_VERSION == 6000
AQUAERO_CURRENT_UPTIME_OFFSET == 17
AQUAERO_TOTAL_UPTIME_OFFSET == 21

\* ------------------------------------------------------------------------
\* Device profiles: the fields aqc_probe() fills in for each product
\* ------------------------------------------------------------------------
Kinds == {"aquaero", "d5next", "farbwerk", "farbwerk360", "octo", "quadro",
          "highflownext", "leakshield", "aquastreamxt", "aquastreamult",
          "poweradjust3", "highflow"}

\* devm_kzalloc(): every field zero, every pointer NULL (here <<>>).
priv_kzalloc ==
    [driver |-> "aquacomputer_d5next", kind |-> "aquaero",
     status_report_id |-> 0, ctrl_report_id |-> 0,
     secondary_ctrl_report_id |-> 0, secondary_ctrl_report_size |-> 0,
     secondary_ctrl_report |-> <<>>,
     ctrl_report_delay |-> 0, buffer_size |-> 0,
     checksum_start |-> 0, checksum_length |-> 0, checksum_offset |-> 0,
     num_fans |-> 0, fan_ctrl_offsets |-> <<>>,
     num_temp_sensors |-> 0, temp_ctrl_offset |-> 0,
     num_flow_sensors |-> 0, flow_pulses_ctrl_offset |-> 0,
     fan_curve_min_power_offsets |-> <<>>,
     fan_curve_max_power_offsets |-> <<>>,
     fan_curve_hold_start_offsets |-> <<>>,
     fan_curve_fallback_power_offsets |-> <<>>,
     fan_sensor_offsets |-> <<>>,
     fan_structure |-> [voltage |-> 0, curr |-> 0, power |-> 0, speed |-> 0],
     temp_sensor_start_offset |-> 0,
     num_virtual_temp_sensors |-> 0, virtual_temp_sensor_start_offset |-> 0,
     num_calc_virt_temp_sensors |-> 0, calc_virt_temp_sensor_start_offset |-> 0,
     num_aquabus_temp_sensors |-> 0, aquabus_temp_sensor_start_offset |-> 0,
     flow_sensors_start_offset |-> 0,
     num_aquabus_flow_sensors |-> 0, aquabus_flow_sensors_start_offset |-> 0,
     power_cycle_count_offset |-> 0,
     serial_number_start_offset |-> 0, firmware_version_offset |-> 0]

\* The switch on hdev->product.
aqc_probe_product(k) ==
    CASE k = "aquaero" ->
           [priv_kzalloc EXCEPT !.kind = k,
              !.num_fans = AQUAERO_NUM_FANS,
              !.fan_ctrl_offsets = aquaero_ctrl_fan_offsets,
              !.num_temp_sensors = AQUAERO_NUM_SENSORS,
              !.num_flow_sensors = 2,
              !.buffer_size = AQUAERO_CTRL_REPORT_SIZE,
              !.temp_ctrl_offset = AQUAERO_TEMP_CTRL_OFFSET,
              !.ctrl_report_delay = CTRL_REPORT_DELAY]
      [] k = "d5next" ->
           [priv_kzalloc EXCEPT !.kind = k,
              !.num_fans = D5NEXT_NUM_FANS,
              !.fan_ctrl_offsets = d5next_ctrl_fan_offsets,
              !.fan_curve_min_power_offsets = d5next_ctrl_fan_curve_min_power_offsets,
              !.fan_curve_max_power_offsets = d5next_ctrl_fan_curve_max_power_offsets,
              !.fan_curve_hold_start_offsets = d5next_ctrl_fan_curve_hold_start_offsets,
              !.fan_curve_fallback_power_offsets =
                  d5next_ctrl_fan_curve_fallback_power_offsets,
              !.num_temp_sensors = D5NEXT_NUM_SENSORS,
              !.buffer_size = D5NEXT_CTRL_REPORT_SIZE,
              !.temp_ctrl_offset = D5NEXT_TEMP_CTRL_OFFSET,
              !.ctrl_report_delay = CTRL_REPORT_DELAY]
      [] k = "farbwerk" ->
           [priv_kzalloc EXCEPT !.kind = k, !.num_fans = 0,
              !.num_temp_sensors = 4, !.temp_ctrl_offset = 0]
      [] k = "farbwerk360" ->
           [priv_kzalloc EXCEPT !.kind = k, !.num_fans = 0,
              !.num_temp_sensors = FARBWERK360_NUM_SENSORS,
              !.buffer_size = FARBWERK360_CTRL_REPORT_SIZE,
              !.temp_ctrl_offset = FARBWERK360_TEMP_CTRL_OFFSET]
      [] k = "octo" ->
           [priv_kzalloc EXCEPT !.kind = k,
              !.num_fans = OCTO_NUM_FANS,
              !.fan_ctrl_offsets = octo_ctrl_fan_offsets,
              !.fan_curve_min_power_offsets = octo_ctrl_fan_curve_min_power_offsets,
              !.fan_curve_max_power_offsets = octo_ctrl_fan_curve_max_power_offsets,
              !.fan_curve_hold_start_offsets = octo_ctrl_fan_curve_hold_start_offsets,
              !.fan_curve_fallback_power_offsets =
                  octo_ctrl_fan_curve_fallback_power_offsets,
              !.num_temp_sensors = OCTO_NUM_SENSORS,
              !.buffer_size = OCTO_CTRL_REPORT_SIZE,
              !.temp_ctrl_offset = OCTO_TEMP_CTRL_OFFSET,
              !.ctrl_report_delay = CTRL_REPORT_DELAY]
      [] k = "quadro" ->
           [priv_kzalloc EXCEPT !.kind = k,
              !.num_fans = QUADRO_NUM_FANS,
              !.fan_ctrl_offsets = quadro_ctrl_fan_offsets,
              !.fan_curve_min_power_offsets = quadro_ctrl_fan_curve_min_power_offsets,
              !.fan_curve_max_power_offsets = quadro_ctrl_fan_curve_max_power_offsets,
              !.fan_curve_hold_start_offsets = quadro_ctrl_fan_curve_hold_start_offsets,
              !.fan_curve_fallback_power_offsets =
                  quadro_ctrl_fan_curve_fallback_power_offsets,
              !.num_temp_sensors = QUADRO_NUM_SENSORS,
              !.num_flow_sensors = 1,
              !.buffer_size = QUADRO_CTRL_REPORT_SIZE,
              !.ctrl_report_delay = CTRL_REPORT_DELAY,
              !.temp_ctrl_offset = QUADRO_TEMP_CTRL_OFFSET,
              !.flow_pulses_ctrl_offset = QUADRO_FLOW_PULSES_CTRL_OFFSET]
      [] k = "highflownext" ->
           [priv_kzalloc EXCEPT !.kind = k, !.num_fans = 0,
              !.num_temp_sensors = 2, !.num_flow_sensors = 1]
      [] k = "leakshield" ->
           [priv_kzalloc EXCEPT !.kind = k, !.num_fans = 0,
              !.num_temp_sensors = 2, !.buffer_size = 49 + 2]
      [] k = "aquastreamxt" ->
           [priv_kzalloc EXCEPT !.kind = k,
              !.num_fans = AQUASTREAMXT_NUM_FANS,
              !.fan_ctrl_offsets = aquastreamxt_ctrl_fan_offsets,
              !.num_temp_sensors = AQUASTREAMXT_NUM_SENSORS,
              !.buffer_size =
                  IF AQUASTREAMXT_SENSOR_REPORT_SIZE > AQUASTREAMXT_CTRL_REPORT_SIZE
                  THEN AQUASTREAMXT_SENSOR_REPORT_SIZE
                  ELSE AQUASTREAMXT_CTRL_REPORT_SIZE]
      [] k = "aquastreamult" ->
           [priv_kzalloc EXCEPT !.kind = k, !.num_fans = 1,
              !.num_temp_sensors = 2]
      [] k = "poweradjust3" ->
           [priv_kzalloc EXCEPT !.kind = k, !.num_fans = 0,
              !.num_temp_sensors = 1, !.buffer_size = 50]
      [] k = "highflow" ->
           [priv_kzalloc EXCEPT !.kind = k, !.num_fans = 0,
              !.num_temp_sensors = 2, !.buffer_size = 118]

\* The sensor-report side of the same switch on hdev->product.
aqc_probe_sensors(p) ==
    CASE p.kind = "aquaero" ->
           [p EXCEPT !.fan_sensor_offsets = aquaero_sensor_fan_offsets,
              !.temp_sensor_start_offset = AQUAERO_SENSOR_START,
              !.num_virtual_temp_sensors = AQUAERO_NUM_VIRTUAL_SENSORS,
              !.virtual_temp_sensor_start_offset = AQUAERO_VIRTUAL_SENSOR_START,
              !.num_calc_virt_temp_sensors = AQUAERO_NUM_CALC_VIRTUAL_SENSORS,
              !.calc_virt_temp_sensor_start_offset = AQUAERO_CALC_VIRTUAL_SENSOR_START,
              !.num_aquabus_temp_sensors = AQUAERO_NUM_AQUABUS_SENSORS,
              !.aquabus_temp_sensor_start_offset = AQUAERO_AQUABUS_SENSOR_START,
              !.flow_sensors_start_offset = AQUAERO_FLOW_SENSORS_START,
              !.num_aquabus_flow_sensors = AQUAERO_NUM_AQUABUS_FLOW_SENSORS,
              !.aquabus_flow_sensors_start_offset = AQUAERO_AQUABUS_FLOW_SENSORS_START]
      [] p.kind = "d5next" ->
           [p EXCEPT !.fan_sensor_offsets = d5next_sensor_fan_offsets,
              !.temp_sensor_start_offset = D5NEXT_COOLANT_TEMP,
              !.num_virtual_temp_sensors = D5NEXT_NUM_VIRTUAL_SENSORS,
              !.virtual_temp_sensor_start_offset = D5NEXT_VIRTUAL_SENSORS_START,
              !.power_cycle_count_offset = AQC_POWER_CYCLES]
      [] p.kind = "farbwerk" ->
           [p EXCEPT !.temp_sensor_start_offset = FARBWERK_SENSOR_START]
      [] p.kind = "farbwerk360" ->
           [p EXCEPT !.temp_sensor_start_offset = FARBWERK360_SENSOR_START,
              !.num_virtual_temp_sensors = FARBWERK360_NUM_VIRTUAL_SENSORS,
              !.virtual_temp_sensor_start_offset = FARBWERK360_VIRTUAL_SENSORS_START]
      [] p.kind = "octo" ->
           [p EXCEPT !.fan_sensor_offsets = octo_sensor_fan_offsets,
              !.temp_sensor_start_offset = OCTO_SENSOR_START,
              !.num_virtual_temp_sensors = OCTO_NUM_VIRTUAL_SENSORS,
              !.virtual_temp_sensor_start_offset = OCTO_VIRTUAL_SENSORS_START,
              !.power_cycle_count_offset = AQC_POWER_CYCLES]
      [] p.kind = "quadro" ->
           [p EXCEPT !.fan_sensor_offsets = quadro_sensor_fan_offsets,
              !.temp_sensor_start_offset = QUADRO_SENSOR_START,
              !.num_virtual_temp_sensors = QUADRO_NUM_VIRTUAL_SENSORS,
              !.virtual_temp_sensor_start_offset = QUADRO_VIRTUAL_SENSORS_START,
              !.flow_sensors_start_offset = QUADRO_FLOW_SENSOR_OFFSET,
              !.power_cycle_count_offset = AQC_POWER_CYCLES]
      [] p.kind = "highflownext" ->
           [p EXCEPT !.temp_sensor_start_offset = HIGHFLOWNEXT_SENSOR_START,
              !.flow_sensors_start_offset = HIGHFLOWNEXT_FLOW,
              !.power_cycle_count_offset = AQC_POWER_CYCLES]
      [] p.kind = "leakshield" ->
           [p EXCEPT !.temp_sensor_start_offset = LEAKSHIELD_TEMPERATURE_1]
      [] p.kind = "aquastreamxt" ->
           [p EXCEPT !.fan_sensor_offsets = aquastreamxt_sensor_fan_offsets,
              !.temp_sensor_start_offset = AQUASTREAMXT_SENSOR_START]
      [] p.kind = "aquastreamult" ->
           [p EXCEPT !.fan_sensor_offsets = aquastreamult_sensor_fan_offsets,
              !.temp_sensor_start_offset = AQUASTREAMULT_SENSOR_START]
      [] p.kind = "poweradjust3" ->
           [p EXCEPT !.temp_sensor_start_offset = POWERADJUST3_SENSOR_START]
      [] p.kind = "highflow" ->
           [p EXCEPT !.temp_sensor_start_offset = HIGHFLOW_SENSOR_START]

\* The switch on priv->kind that sets the report ids.
aqc_probe_reports(p) ==
    CASE p.kind = "aquaero" ->
           [p EXCEPT !.serial_number_start_offset = AQUAERO_SERIAL_START,
              !.firmware_version_offset = AQUAERO_FIRMWARE_VERSION,
              !.fan_structure = aqc_aquaero_fan_structure,
              !.ctrl_report_id = AQUAERO_CTRL_REPORT_ID,
              !.secondary_ctrl_report_id = AQUAERO_SECONDARY_CTRL_REPORT_ID,
              !.secondary_ctrl_report_size = AQUAERO_SECONDARY_CTRL_REPORT_SIZE,
              !.secondary_ctrl_report = aquaero_secondary_ctrl_report]
      [] p.kind = "aquastreamxt" ->
           [p EXCEPT !.serial_number_start_offset = AQUASTREAMXT_SERIAL_START,
              !.firmware_version_offset = AQUASTREAMXT_FIRMWARE_VERSION,
              !.status_report_id = AQUASTREAMXT_STATUS_REPORT_ID,
              !.ctrl_report_id = AQUASTREAMXT_CTRL_REPORT_ID,
              !.secondary_ctrl_report_id = AQUASTREAMXT_SECONDARY_CTRL_REPORT_ID,
              !.secondary_ctrl_report_size = AQUASTREAMXT_SECONDARY_CTRL_REPORT_SIZE,
              !.secondary_ctrl_report = aquastreamxt_secondary_ctrl_report]
      [] p.kind = "poweradjust3" ->
           [p EXCEPT !.status_report_id = POWERADJUST3_STATUS_REPORT_ID]
      [] p.kind = "highflow" ->
           [p EXCEPT !.serial_number_start_offset = HIGHFLOW_SERIAL_START,
              !.firmware_version_offset = HIGHFLOW_FIRMWARE_VERSION,
              !.status_report_id = HIGHFLOW_STATUS_REPORT_ID]
      [] OTHER ->
           IF p.kind = "aquastreamult"
           THEN [p EXCEPT !.serial_number_start_offset = AQC_SERIAL_START,
                   !.firmware_version_offset = AQC_FIRMWARE_VERSION,
                   !.fan_structure = aqc_aquastreamult_fan_structure]
           ELSE [p EXCEPT !.serial_number_start_offset = AQC_SERIAL_START,
                   !.firmware_version_offset = AQC_FIRMWARE_VERSION,
                   !.fan_structure = aqc_general_fan_structure,
                   !.ctrl_report_id = CTRL_REPORT_ID,
                   !.secondary_ctrl_report_id = SECONDARY_CTRL_REPORT_ID,
                   !.secondary_ctrl_report_size = SECONDARY_CTRL_REPORT_SIZE,
                   !.secondary_ctrl_report = secondary_ctrl_report]

\* The checksum window derived from buffer_size.
aqc_probe_checksum(p) ==
    IF p.buffer_size # 0
    THEN [p EXCEPT !.checksum_start = 1,
            !.checksum_length = p.buffer_size - 3,
            !.checksum_offset = p.buffer_size - 2]
    ELSE p

aqc_probe(k) ==
    aqc_probe_checksum(aqc_probe_reports(aqc_probe_sensors(aqc_probe_product(k))))

\* aquacomputer_octo.c has no profile: its sizes and offsets are macros.
\* They are laid out in the same record so the transaction steps can be
\* shared; the driver has no inter-operation delay and no status report.
octo_probe ==
    [priv_kzalloc EXCEPT !.driver = "aquacomputer_octo", !.kind = "octo",
       !.ctrl_report_id = CTRL_REPORT_ID,
       !.secondary_ctrl_report_id = SECONDARY_CTRL_REPORT_ID,
       !.secondary_ctrl_report_size = SECONDARY_CTRL_REPORT_SIZE,
       !.secondary_ctrl_report = secondary_ctrl_report,
       !.buffer_size = OCTO_DRV_CTRL_REPORT_SIZE,
       !.checksum_start = OCTO_DRV_CTRL_REPORT_CHECKSUM_START,
       !.checksum_length = OCTO_DRV_CTRL_REPORT_CHECKSUM_LENGTH,
       !.checksum_offset = OCTO_DRV_CTRL_REPORT_CHECKSUM_OFFSET,
       !.num_fans = 8, !.fan_ctrl_offsets = octo_drv_ctrl_fan_offsets,
       !.num_temp_sensors = 4]

\* d5next.c and aquacomputer_farbwerk360.c only decode sensor reports; their
\* offsets are macros too.
d5next_probe == [priv_kzalloc EXCEPT !.driver = "d5next", !.kind = "d5next"]
farbwerk360_probe ==
    [priv_kzalloc EXCEPT !.driver = "aquacomputer_farbwerk360", !.kind = "farbwerk360"]

\* The channels each of these drivers registers, per sensor type.
octo_info == [temp |-> 4, fan |-> 8, pwm |-> 8, power |-> 8, in |-> 8, curr |-> 8]
d5next_info == [temp |-> 1, fan |-> 2, power |-> 2, in |-> 3, curr |-> 2]
farbwerk360_info == [temp |-> 4]

\* ------------------------------------------------------------------------
\* Handlers: what each hwmon/sysfs callback does between transactions
\* ------------------------------------------------------------------------
\* A handler is evaluated stage by stage.  At each stage it either returns to
\* its caller or starts one locked transaction and names the stage at which
\* it resumes with the transaction's result (r, v).

\* The caller's *val, or the text buffer of a show function.
NoVal == [set |-> FALSE, v |-> 0]
Val(x) == [set |-> TRUE, v |-> x]

Return(r, x) == [do |-> "return", ret |-> r, val |-> x, txn |-> <<>>, then |-> ""]
Txn(x, then) == [do |-> "txn", ret |-> 0, val |-> NoVal, txn |-> x, then |-> then]

GetVal(offset, type) ==
    [fn |-> "aqc_get_ctrl_val", offsets |-> <<offset>>, values |-> <<0>>,
     types |-> <<type>>, len |-> 1]
SetVals(offsets, values, types, len) ==
    [fn |-> "aqc_set_ctrl_vals", offsets |-> offsets, values |-> values,
     types |-> types, len |-> len]
SetVal(offset, value, type) == SetVals(<<offset>>, <<value>>, <<type>>, 1)
NoTxn == [fn |-> "", offsets |-> <<>>, values |-> <<>>, types |-> <<>>, len |-> 0]
LegacyRead ==
    [fn |-> "aqc_legacy_read", offsets |-> <<>>, values |-> <<>>,
     types |-> <<>>, len |-> 0]

c_div(a, b) == IF a >= 0 THEN a \div b ELSE -((-a) \div b)
clamp_val(v, lo, hi) == IF v < lo THEN lo ELSE IF v > hi THEN hi ELSE v
RECURSIVE shl(_, _)
shl(v, n) == IF n <= 0 THEN v ELSE shl(2 * v, n - 1)
RECURSIVE shr(_, _)
shr(v, n) == IF n <= 0 THEN v ELSE shr(v \div 2, n - 1)
aqc_get_bit_at_pos(val, pos) == shr(val, pos) % 2
RECURSIVE OrBits(_, _, _)
OrBits(x, y, k) ==
    IF k = 0 THEN 0
    ELSE (IF x % 2 = 1 \/ y % 2 = 1 THEN 1 ELSE 0) + 2 * OrBits(x \div 2, y \div 2, k - 1)
\* aqc_set_bit_at_pos() if it did not clear the bit before it sets it.
aqc_set_bit_at_pos_or_only(val, pos, bit_value) ==
    OrBits(val, shl(bit_value, pos), 16)
aqc_set_bit_at_pos(val, pos, bit_value) ==
    OrBits(val - shl(aqc_get_bit_at_pos(val, pos), pos), shl(bit_value, pos), 16)

\* sprintf("%d\n", x): the number of characters written.
RECURSIVE digits(_)
digits(n) == IF n < 10 THEN 1 ELSE 1 + digits(n \div 10)
sprintf_d(x) == (IF x < 0 THEN 1 + digits(-x) ELSE digits(x)) + 1

\* The part of aqc_read() after the freshness test.
aqc_read_switch(p, c, s) ==
    LET ch == c.channel
        fan == p.fan_ctrl_offsets[ch + 1]
    IN
    CASE c.type = "temp" /\ c.attr = "temp_input" ->
           IF s.temp_input[ch + 1] = -ENODATA THEN Return(-ENODATA, NoVal)
           ELSE Return(0, Val(s.temp_input[ch + 1]))
      [] c.type = "temp" /\ c.attr = "temp_offset" ->
           Txn(GetVal(p.temp_ctrl_offset + ch * AQC_SENSOR_SIZE, AQC_BE16), "get_done")
      [] c.type = "temp" -> Return(0, NoVal)
      [] c.type = "fan" /\ c.attr = "fan_input" ->
           IF s.speed_input[ch + 1] = -ENODATA THEN Return(-ENODATA, NoVal)
           ELSE Return(0, Val(s.speed_input[ch + 1]))
      [] c.type = "fan" /\ c.attr = "fan_min" ->
           IF p.kind = "aquaero"
           THEN Txn(GetVal(fan + AQUAERO_FAN_CTRL_MIN_RPM_OFFSET, AQC_BE16), "get_done")
           ELSE Return(0, Val(s.speed_input_min[ch + 1]))
      [] c.type = "fan" /\ c.attr = "fan_max" ->
           IF p.kind = "aquaero"
           THEN Txn(GetVal(fan + AQUAERO_FAN_CTRL_MAX_RPM_OFFSET, AQC_BE16), "get_done")
           ELSE Return(0, Val(s.speed_input_max[ch + 1]))
      [] c.type = "fan" /\ c.attr = "fan_target" ->
           Return(0, Val(s.speed_input_target[ch + 1]))
      [] c.type = "fan" /\ c.attr = "fan_pulses" ->
           Txn(GetVal(p.flow_pulses_ctrl_offset, AQC_BE16), "get_done")
      [] c.type = "fan" -> Return(-EOPNOTSUPP, NoVal)
      [] c.type = "power" -> Return(0, Val(s.power_input[ch + 1]))
      [] c.type = "pwm" /\ c.attr = "pwm_enable" ->
           Txn(GetVal(fan, AQC_8), "get_done")
      [] c.type = "pwm" /\ c.attr = "pwm_input" ->
           IF p.kind = "aquaero"
           THEN Txn(GetVal(AQUAERO_CTRL_PRESET_START + ch * AQUAERO_CTRL_PRESET_SIZE,
                           AQC_BE16), "get_done")
           ELSE IF p.kind = "aquastreamxt"
           THEN (IF ch = 0 THEN Txn(GetVal(fan, AQC_LE16), "get_done")
                 ELSE Txn(GetVal(fan, AQC_8), "get_done"))
           ELSE Txn(GetVal(fan + AQC_FAN_CTRL_PWM_OFFSET, AQC_BE16), "get_done")
      [] c.type = "pwm" /\ c.attr = "pwm_auto_channels_temp" ->
           Txn(GetVal(fan + AQC_FAN_CTRL_TEMP_SELECT_OFFSET, AQC_BE16), "get_done")
      [] c.type = "pwm" /\ c.attr = "pwm_mode" ->
           Txn(GetVal(fan + AQUAERO_FAN_CTRL_MODE_OFFSET, AQC_8), "get_done")
      [] c.type = "pwm" -> Return(-EOPNOTSUPP, NoVal)
      [] c.type = "in" -> Return(0, Val(s.voltage_input[ch + 1]))
      [] c.type = "curr" -> Return(0, Val(s.current_input[ch + 1]))
      [] OTHER -> Return(-EOPNOTSUPP, NoVal)

\* What aqc_read() makes of the value aqc_get_ctrl_val() stored in *val.
aqc_read_convert(p, c, v) ==
    CASE c.attr = "temp_offset" -> v * 10
      [] c.attr = "pwm_enable" -> v + 1
      [] c.attr = "pwm_input" ->
           IF p.kind = "aquastreamxt"
           THEN (IF c.channel = 0
                 THEN aqc_aquastreamxt_rpm_to_pwm(aqc_aquastreamxt_convert_pump_rpm(v))
                 ELSE v)
           ELSE aqc_percent_to_pwm(v)
      [] c.attr = "pwm_auto_channels_temp" ->
           \* 1 << *val: the shift is undefined outside 0..63; the values a
           \* device image yields here are kept to the defined range.
           IF v >= 0 /\ v < 16 THEN shl(1, v) ELSE 0
      [] c.attr = "pwm_mode" -> IF v = 2 THEN 1 ELSE v
      [] OTHER -> v

aqc_read(p, c, stage, r, v, s, stale) ==
    CASE stage = "entry" ->
           IF stale
           THEN (IF p.status_report_id # 0 THEN Txn(LegacyRead, "legacy_done")
                 ELSE Return(-ENODATA, NoVal))
           ELSE aqc_read_switch(p, c, s)
      [] stage = "legacy_done" ->
           IF r < 0 THEN Return(-ENODATA, NoVal) ELSE aqc_read_switch(p, c, s)
      [] OTHER ->
           IF r < 0 THEN Return(r, NoVal) ELSE Return(0, Val(aqc_read_convert(p, c, v)))

\* The tail of the pwm_enable case of aqc_write(), after the range checks.
\* The tail of the pwm_enable case if the value went to the device as hwmon
\* gave it.
aqc_write_pwm_enable_undecremented(p, c) ==
    LET fan == p.fan_ctrl_offsets[c.channel + 1] IN
    IF c.val = 0
    THEN Txn(SetVal(fan + AQC_FAN_CTRL_PWM_OFFSET, aqc_pwm_to_percent(255), AQC_BE16),
             "full_power_done")
    ELSE Txn(SetVal(fan, c.val, AQC_8), "set_done")

aqc_write_pwm_enable(p, c) ==
    LET fan == p.fan_ctrl_offsets[c.channel + 1] IN
    IF c.val = 0
    THEN Txn(SetVal(fan + AQC_FAN_CTRL_PWM_OFFSET, aqc_pwm_to_percent(255), AQC_BE16),
             "full_power_done")
    ELSE Txn(SetVal(fan, c.val - 1, AQC_8), "set_done")

aqc_write_entry(p, c) ==
    LET ch == c.channel
        val == c.val
        fan == p.fan_ctrl_offsets[ch + 1]
    IN
    CASE c.type = "temp" /\ c.attr = "temp_offset" ->
           Txn(SetVal(p.temp_ctrl_offset + ch * AQC_SENSOR_SIZE,
                      c_div(clamp_val(val, -15000, 15000), 10), AQC_BE16), "set_done")
      [] c.type = "temp" -> Return(-EOPNOTSUPP, NoVal)
      [] c.type = "fan" /\ c.attr = "fan_min" ->
           Txn(SetVal(fan + AQUAERO_FAN_CTRL_MIN_RPM_OFFSET, clamp_val(val, 0, 15000),
                      AQC_BE16), "set_done")
      [] c.type = "fan" /\ c.attr = "fan_max" ->
           Txn(SetVal(fan + AQUAERO_FAN_CTRL_MAX_RPM_OFFSET, clamp_val(val, 0, 15000),
                      AQC_BE16), "set_done")
      [] c.type = "fan" /\ c.attr = "fan_pulses" ->
           Txn(SetVal(p.flow_pulses_ctrl_offset, clamp_val(val, 10, 1000), AQC_BE16),
               "set_done")
      [] c.type = "fan" -> Return(-EOPNOTSUPP, NoVal)
      [] c.type = "pwm" /\ c.attr = "pwm_enable" ->
           IF p.kind = "d5next"
           THEN (IF val < 0 \/ val > 3 THEN Return(-EINVAL, NoVal)
                 ELSE aqc_write_pwm_enable(p, c))
           ELSE IF p.kind \in {"octo", "quadro"}
           THEN (IF val < 0 \/ val > p.num_fans + 3 THEN Return(-EINVAL, NoVal)
                 ELSE IF val = ch + 4 THEN Return(-EINVAL, NoVal)
                 ELSE IF val > 3
                 THEN Txn(GetVal(p.fan_ctrl_offsets[val - 4 + 1], AQC_8), "followed_read")
                 ELSE aqc_write_pwm_enable(p, c))
           ELSE Return(-EOPNOTSUPP, NoVal)
      [] c.type = "pwm" /\ c.attr = "pwm_input" ->
           IF val < 0 \/ val > 255 THEN Return(-EINVAL, NoVal)
           ELSE IF p.kind = "aquaero"
           THEN Txn(SetVals(<<AQUAERO_CTRL_PRESET_START + ch * AQUAERO_CTRL_PRESET_SIZE,
                              fan + AQUAERO_FAN_CTRL_SRC_OFFSET,
                              fan + AQUAERO_FAN_CTRL_MIN_PWR_OFFSET,
                              fan + AQUAERO_FAN_CTRL_MAX_PWR_OFFSET>>,
                            <<aqc_pwm_to_percent(val), AQUAERO_CTRL_PRESET_ID + ch, 0,
                              aqc_pwm_to_percent(255)>>,
                            <<AQC_BE16, AQC_BE16, AQC_BE16, AQC_BE16>>, 4), "set_done")
           ELSE IF p.kind = "aquastreamxt"
           THEN (IF ch = 0
                 THEN Txn(SetVals(<<fan, AQUASTREAMXT_PUMP_MODE_CTRL_OFFSET>>,
                                  <<aqc_aquastreamxt_convert_pump_rpm(
                                        aqc_aquastreamxt_pwm_to_rpm(val)),
                                    AQUASTREAMXT_PUMP_MODE_CTRL_MANUAL>>,
                                  <<AQC_LE16, AQC_8>>, 2), "set_done")
                 ELSE Txn(SetVals(<<fan, AQUASTREAMXT_FAN_MODE_CTRL_OFFSET>>,
                                  <<val, AQUASTREAMXT_FAN_MODE_CTRL_MANUAL>>,
                                  <<AQC_8, AQC_8>>, 2), "set_done"))
           ELSE Txn(SetVal(fan + AQC_FAN_CTRL_PWM_OFFSET, aqc_pwm_to_percent(val),
                           AQC_BE16), "set_done")
      [] c.type = "pwm" /\ c.attr = "pwm_auto_channels_temp" ->
           LET temp_sensor == CASE val = 1 -> 0 [] val = 2 -> 1 [] val = 4 -> 2
                                [] val = 8 -> 3 [] OTHER -> -1
           IN IF temp_sensor < 0 THEN Return(-EINVAL, NoVal)
              ELSE IF temp_sensor >= p.num_temp_sensors THEN Return(-EINVAL, NoVal)
              ELSE Txn(SetVal(fan + AQC_FAN_CTRL_TEMP_SELECT_OFFSET, temp_sensor, AQC_BE16),
                       "set_done")
      [] c.type = "pwm" /\ c.attr = "pwm_mode" ->
           IF val \notin {0, 1} THEN Return(-EINVAL, NoVal)
           ELSE Txn(SetVal(fan + AQUAERO_FAN_CTRL_MODE_OFFSET, IF val = 1 THEN 2 ELSE 0,
                           AQC_8), "set_done")
      [] c.type = "pwm" -> Return(0, NoVal)
      [] OTHER -> Return(-EOPNOTSUPP, NoVal)

\* aqc_write() if it did not look at the mode of the fan to be followed.
aqc_write_target_unchecked(p, c, stage, r, v) ==
    CASE stage = "entry" -> aqc_write_entry(p, c)
      [] stage = "followed_read" ->
           IF r < 0 THEN Return(r, NoVal) ELSE aqc_write_pwm_enable(p, c)
      [] stage = "full_power_done" ->
           IF r < 0 THEN Return(r, NoVal)
           ELSE Txn(SetVal(p.fan_ctrl_offsets[c.channel + 1], c.val, AQC_8), "set_done")
      [] OTHER -> IF r < 0 THEN Return(r, NoVal) ELSE Return(0, NoVal)

aqc_write(p, c, stage, r, v) ==
    CASE stage = "entry" -> aqc_write_entry(p, c)
      [] stage = "followed_read" ->
           IF r < 0 THEN Return(r, NoVal)
           ELSE IF v > 2 THEN Return(-EINVAL, NoVal)
           ELSE aqc_write_pwm_enable(p, c)
      [] stage = "full_power_done" ->
           IF r < 0 THEN Return(r, NoVal)
           ELSE Txn(SetVal(p.fan_ctrl_offsets[c.channel + 1], c.val, AQC_8), "set_done")
      [] OTHER -> IF r < 0 THEN Return(r, NoVal) ELSE Return(0, NoVal)

\* aqc_set_ctrl_vals() called with the four fields of the Aquaero pwm write,
\* the c.point-th of them with a type the switch of aqc_set_buffer_val() does
\* not know.
aqc_set_ctrl_vals_typed(p, c, stage, r) ==
    IF stage = "entry"
    THEN LET x == aqc_write_entry(p, [c EXCEPT !.fn = "aqc_write"]).txn IN
         Txn([x EXCEPT !.types[c.point] = AQC_TYPE_OTHER], "set_done")
    ELSE IF r < 0 THEN Return(r, NoVal) ELSE Return(0, NoVal)

\* The sysfs show functions of the curve groups: c.channel is the fan (nr or
\* index), c.point the curve point.
show_offset(p, c) ==
    LET fan == p.fan_ctrl_offsets[c.channel + 1] IN
    CASE c.fn = "show_auto_temp" ->
           fan + AQC_FAN_CTRL_TEMP_CURVE_START + c.point * AQC_SENSOR_SIZE
      [] c.fn = "show_auto_pwm" ->
           fan + AQC_FAN_CTRL_PWM_CURVE_START + c.point * AQC_SENSOR_SIZE
      [] c.fn = "show_curve_power_min" -> p.fan_curve_min_power_offsets[c.channel + 1]
      [] c.fn = "show_curve_power_max" -> p.fan_curve_max_power_offsets[c.channel + 1]
      [] c.fn = "show_curve_power_fallback" ->
           p.fan_curve_fallback_power_offsets[c.channel + 1]
      [] OTHER -> p.fan_curve_hold_start_offsets[c.channel + 1]

show_convert(c, v) ==
    CASE c.fn = "show_auto_temp" -> s16(v)
      [] c.fn = "show_curve_start_boost" ->
           aqc_get_bit_at_pos(v, FAN_CURVE_START_BOOST_BIT_POS)
      [] c.fn = "show_curve_power_hold_min" ->
           aqc_get_bit_at_pos(v, FAN_CURVE_HOLD_MIN_POWER_BIT_POS)
      [] OTHER -> aqc_percent_to_pwm(v)

ShowFns == {"show_auto_temp", "show_auto_pwm", "show_curve_power_min",
            "show_curve_power_max", "show_curve_power_fallback",
            "show_curve_start_boost", "show_curve_power_hold_min"}

aqc_show(p, c, stage, r, v) ==
    IF stage = "entry"
    THEN Txn(GetVal(show_offset(p, c),
                    IF c.fn \in {"show_curve_start_boost", "show_curve_power_hold_min"}
                    THEN AQC_8 ELSE AQC_BE16), "get_done")
    ELSE IF r < 0 THEN Return(-ENODATA, NoVal)
    ELSE Return(sprintf_d(show_convert(c, v)), Val(show_convert(c, v)))

\* The sysfs store functions of the curve groups.  kstrtoul() parses the text
\* written to the file, of which c.val is the number: it fails on a sign.
kstrtoul(v) == IF v < 0 THEN [ret |-> -EINVAL, val |-> 0] ELSE [ret |-> 0, val |-> v]

StoreFns == {"store_auto_temp", "store_auto_pwm", "store_curve_power_min",
             "store_curve_power_max", "store_curve_power_fallback",
             "store_curve_start_boost", "store_curve_power_hold_min"}
StorePwmFns == {"store_auto_pwm", "store_curve_power_min", "store_curve_power_max",
                "store_curve_power_fallback"}
StoreBitFns == {"store_curve_start_boost", "store_curve_power_hold_min"}

store_offset(p, c) ==
    LET fan == p.fan_ctrl_offsets[c.channel + 1] IN
    CASE c.fn = "store_auto_temp" ->
           fan + AQC_FAN_CTRL_TEMP_CURVE_START + c.point * AQC_SENSOR_SIZE
      [] c.fn = "store_auto_pwm" ->
           fan + AQC_FAN_CTRL_PWM_CURVE_START + c.point * AQC_SENSOR_SIZE
      [] c.fn = "store_curve_power_min" -> p.fan_curve_min_power_offsets[c.channel + 1]
      [] c.fn = "store_curve_power_max" -> p.fan_curve_max_power_offsets[c.channel + 1]
      [] c.fn = "store_curve_power_fallback" ->
           p.fan_curve_fallback_power_offsets[c.channel + 1]
      [] OTHER -> p.fan_curve_hold_start_offsets[c.channel + 1]

store_bit_pos(c) ==
    IF c.fn = "store_curve_start_boost" THEN FAN_CURVE_START_BOOST_BIT_POS
    ELSE FAN_CURVE_HOLD_MIN_POWER_BIT_POS

\* The store functions if the duty cycle were taken as written.
aqc_store_unchecked(p, c, stage, r, v) ==
    LET k == kstrtoul(c.val) IN
    CASE stage = "entry" ->
           IF k.ret < 0 THEN Return(k.ret, NoVal)
           ELSE IF c.fn \in StoreBitFns
           THEN IF k.val > 2 THEN Return(-EINVAL, NoVal)
                ELSE Txn(GetVal(store_offset(p, c), AQC_8), "flags_read")
           ELSE IF c.fn = "store_auto_temp"
           THEN Txn(SetVal(store_offset(p, c), k.val, AQC_BE16), "set_done")
           ELSE Txn(SetVal(store_offset(p, c), aqc_pwm_to_percent(k.val), AQC_BE16),
                    "set_done")
      [] stage = "flags_read" ->
           IF r < 0 THEN Return(r, NoVal)
           ELSE Txn(SetVal(store_offset(p, c),
                           aqc_set_bit_at_pos(v, store_bit_pos(c), k.val), AQC_8),
                    "set_done")
      [] OTHER -> IF r < 0 THEN Return(r, NoVal) ELSE Return(sprintf_d(c.val), NoVal)

\* A store function returns count, the length of the text it was given.
aqc_store(p, c, stage, r, v) ==
    LET k == kstrtoul(c.val) IN
    CASE stage = "entry" ->
           IF k.ret < 0 THEN Return(k.ret, NoVal)
           ELSE IF c.fn \in StorePwmFns
           THEN IF k.val > 255 THEN Return(-EINVAL, NoVal)
                ELSE Txn(SetVal(store_offset(p, c), aqc_pwm_to_percent(k.val), AQC_BE16),
                         "set_done")
           ELSE IF c.fn \in StoreBitFns
           THEN IF k.val > 2 THEN Return(-EINVAL, NoVal)
                ELSE Txn(GetVal(store_offset(p, c), AQC_8), "flags_read")
           ELSE Txn(SetVal(store_offset(p, c), k.val, AQC_BE16), "set_done")
      [] stage = "flags_read" ->
           IF r < 0 THEN Return(r, NoVal)
           ELSE Txn(SetVal(store_offset(p, c),
                           aqc_set_bit_at_pos(v, store_bit_pos(c), k.val), AQC_8),
                    "set_done")
      [] OTHER -> IF r < 0 THEN Return(r, NoVal) ELSE Return(sprintf_d(c.val), NoVal)

\* aquacomputer_octo.c: octo_read() and octo_write().  The transaction of the
\* pwm attribute is written inline there, with the fan's offset taken from
\* ctrl_fan_offsets.
OctoReadPwm(offset) ==
    [fn |-> "octo_read", offsets |-> <<offset>>, values |-> <<0>>,
     types |-> <<AQC_BE16>>, len |-> 1]
OctoWritePwm(offset, value) ==
    [fn |-> "octo_write", offsets |-> <<offset>>, values |-> <<value>>,
     types |-> <<AQC_BE16>>, len |-> 1]

octo_read(p, c, stage, r, v, s, stale) ==
    CASE stage = "entry" ->
           IF stale THEN Return(-ENODATA, NoVal)
           ELSE CASE c.type = "temp" -> Return(0, Val(s.temp_input[c.channel + 1]))
                  [] c.type = "fan" -> Return(0, Val(s.speed_input[c.channel + 1]))
                  [] c.type = "power" -> Return(0, Val(s.power_input[c.channel + 1]))
                  [] c.type = "pwm" ->
                       Txn(OctoReadPwm(p.fan_ctrl_offsets[c.channel + 1]), "get_done")
                  [] c.type = "in" -> Return(0, Val(s.voltage_input[c.channel + 1]))
                  [] c.type = "curr" -> Return(0, Val(s.current_input[c.channel + 1]))
                  [] OTHER -> Return(-EOPNOTSUPP, NoVal)
      [] OTHER ->
           \* Both "goto unlock" on failure and the normal path reach the
           \* break and then "return 0"; on failure *val was never written.
           IF r < 0 THEN Return(0, NoVal) ELSE Return(0, Val(octo_percent_to_pwm(v)))

octo_write(p, c, stage, r, v) ==
    CASE stage = "entry" ->
           IF c.type = "pwm" /\ c.attr = "pwm_input"
           THEN Txn(OctoWritePwm(p.fan_ctrl_offsets[c.channel + 1],
                                 octo_pwm_to_percent(c.val)), "set_done")
           ELSE Return(0, NoVal)
      [] OTHER -> Return(r, NoVal)

\* d5next.c: d5next_read() after its own freshness test.
d5next_read(c, s, stale) ==
    IF stale THEN Return(-ENODATA, NoVal)
    ELSE CASE c.type = "temp" -> Return(0, Val(s.temp_input[c.channel + 1]))
           [] c.type = "fan" -> Return(0, Val(s.speed_input[c.channel + 1]))
           [] c.type = "power" -> Return(0, Val(s.power_input[c.channel + 1]))
           [] c.type = "in" -> Return(0, Val(s.voltage_input[c.channel + 1]))
           [] c.type = "curr" -> Return(0, Val(s.current_input[c.channel + 1]))
           [] OTHER -> Return(-EOPNOTSUPP, NoVal)

\* aquacomputer_farbwerk360.c: farbwerk360_read().
farbwerk360_read(c, s, stale) ==
    IF stale THEN Return(-ENODATA, NoVal)
    ELSE IF c.type = "temp" THEN Return(0, Val(s.temp_input[c.channel + 1]))
    ELSE Return(-EOPNOTSUPP, NoVal)

\* ------------------------------------------------------------------------
\* Attribute visibility
\* ------------------------------------------------------------------------
S_0444 == 292
S_0644 == 420

\* hw: what the first Aquaero sensor report told the driver by the time the
\* attributes are registered (received: the completion fired within the wait).
\* The channels and attributes that aqc_info declares, for which the hwmon
\* core asks aqc_is_visible(); the first MaxInfoChannels channels of a type
\* are asked about.
MaxInfoChannels == 8
aqc_info_attrs ==
    [fan |-> {"fan_input", "fan_label", "fan_min", "fan_max", "fan_target", "fan_pulses"},
     pwm |-> {"pwm_input", "pwm_enable", "pwm_auto_channels_temp", "pwm_mode"},
     power |-> {"power_input", "power_label"},
     in |-> {"in_input", "in_label"},
     curr |-> {"curr_input", "curr_label"}]

\* aqc_is_visible() if the pwm case did not compare the channel with the
\* number of fans.
aqc_is_visible_any_pwm(p, hw, type, attr, channel) ==
    CASE type = "temp" ->
           IF channel < p.num_temp_sensors /\ attr \in {"temp_label", "temp_input"}
           THEN S_0444 ELSE 0
      [] type = "pwm" -> IF attr = "pwm_input" THEN S_0644 ELSE 0
      [] OTHER -> IF channel < p.num_fans THEN S_0444 ELSE 0

aqc_is_visible(p, hw, type, attr, channel) ==
    CASE type = "temp" ->
           IF channel < p.num_temp_sensors /\ attr \in {"temp_label", "temp_input"}
           THEN S_0444
           ELSE IF channel < p.num_temp_sensors /\ attr = "temp_offset"
                   /\ p.temp_ctrl_offset # 0
           THEN S_0644
           ELSE IF channel < p.num_temp_sensors + p.num_virtual_temp_sensors
                             + p.num_calc_virt_temp_sensors + p.num_aquabus_temp_sensors
                   /\ attr \in {"temp_label", "temp_input"}
           THEN S_0444
           ELSE 0
      [] type = "pwm" ->
           IF p.fan_ctrl_offsets # <<>> /\ channel < p.num_fans
           THEN CASE p.kind = "aquaero" ->
                       IF attr = "pwm_input" THEN S_0644
                       ELSE IF attr = "pwm_mode"
                       THEN (IF ~hw.received THEN 0
                             ELSE IF (hw.aquaero_hw_kind = "aquaero5" /\ channel = 3)
                                     \/ hw.aquaero_hw_kind = "aquaero6"
                             THEN S_0644 ELSE 0)
                       ELSE 0
                  [] p.kind = "aquastreamxt" ->
                       IF attr = "pwm_input" THEN S_0644 ELSE 0
                  [] p.kind \in {"d5next", "octo", "quadro"} ->
                       IF attr \in {"pwm_enable", "pwm_input", "pwm_auto_channels_temp"}
                       THEN S_0644 ELSE 0
                  [] OTHER ->
                       IF attr \in {"pwm_input", "pwm_auto_channels_temp"}
                       THEN S_0644 ELSE 0
           ELSE 0
      [] type = "fan" ->
           CASE attr \in {"fan_input", "fan_label"} ->
                  CASE p.kind = "aquastreamult" -> IF channel < 4 THEN S_0444 ELSE 0
                    [] p.kind = "highflownext" -> IF channel < 3 THEN S_0444 ELSE 0
                    [] p.kind = "leakshield" ->
                         IF channel = 1 \/ channel = 2 THEN S_0644
                         ELSE IF channel < 5 THEN S_0444 ELSE 0
                    [] p.kind \in {"aquaero", "quadro"} ->
                         IF channel < p.num_fans + p.num_flow_sensors
                                      + p.num_aquabus_flow_sensors
                         THEN S_0444 ELSE 0
                    [] OTHER -> IF channel < p.num_fans THEN S_0444 ELSE 0
             [] attr \in {"fan_min", "fan_max"} ->
                  IF p.kind = "aquaero" /\ channel < p.num_fans THEN S_0644
                  ELSE IF p.kind = "leakshield" /\ channel = 0 THEN S_0444 ELSE 0
             [] attr = "fan_target" ->
                  IF p.kind = "leakshield" /\ channel = 0 THEN S_0444 ELSE 0
             [] attr = "fan_pulses" ->
                  IF p.kind = "quadro" /\ channel = p.num_fans THEN S_0644 ELSE 0
             [] OTHER -> 0
      [] type = "power" ->
           CASE p.kind = "aquastreamult" -> IF channel < 2 THEN S_0444 ELSE 0
             [] p.kind = "highflownext" -> IF channel = 0 THEN S_0444 ELSE 0
             [] p.kind = "aquastreamxt" -> 0
             [] OTHER -> IF channel < p.num_fans THEN S_0444 ELSE 0
      [] type = "curr" ->
           CASE p.kind = "aquastreamult" -> IF channel < 2 THEN S_0444 ELSE 0
             [] p.kind = "aquastreamxt" -> IF channel = 0 THEN S_0444 ELSE 0
             [] OTHER -> IF channel < p.num_fans THEN S_0444 ELSE 0
      [] type = "in" ->
           CASE p.kind = "d5next" -> IF channel < p.num_fans + 2 THEN S_0444 ELSE 0
             [] p.kind \in {"aquastreamult", "highflownext"} ->
                  IF channel < 2 THEN S_0444 ELSE 0
             [] OTHER -> IF channel < p.num_fans THEN S_0444 ELSE 0
      [] OTHER -> 0

octo_is_visible(type, attr, channel) ==
    CASE type \in {"temp", "fan", "power", "in", "curr"} -> S_0444
      [] type = "pwm" -> IF attr = "pwm_input" THEN S_0644 ELSE 0
      [] OTHER -> 0

\* The curve groups are created for d5next, octo and quadro only.
aqc_curve_groups(p) == p.fan_ctrl_offsets # <<>> /\ p.kind \in {"d5next", "octo", "quadro"}

\* aqc_create_attr_group() lays the params group out fan by fan, one
\* attribute per template, and sysfs hands aqc_params_is_visible() the
\* position of the attribute in the group.
ParamsTemplates == <<"curve_power_min", "curve_power_max", "curve_power_fallback",
                     "curve_start_boost", "curve_power_hold_min">>
params_index(channel, name) ==
    channel * Len(ParamsTemplates)
    + (CHOOSE i \in 1..Len(ParamsTemplates) : ParamsTemplates[i] = name) - 1

aqc_params_is_visible(p, index) ==
    LET nr == index % 5 IN
    IF p.kind = "d5next" /\ nr > 2 THEN 0 ELSE S_0644

aqc_curve_is_visible(p, index) == S_0644

\* The template a show or store function belongs to.
sysfs_template(fn) ==
    CASE fn \in {"show_auto_temp", "store_auto_temp"} -> "temp_auto_point_temp"
      [] fn \in {"show_auto_pwm", "store_auto_pwm"} -> "temp_auto_point_pwm"
      [] fn \in {"show_curve_power_min", "store_curve_power_min"} -> "curve_power_min"
      [] fn \in {"show_curve_power_max", "store_curve_power_max"} -> "curve_power_max"
      [] fn \in {"show_curve_power_fallback", "store_curve_power_fallback"} ->
           "curve_power_fallback"
      [] fn \in {"show_curve_start_boost", "store_curve_start_boost"} ->
           "curve_start_boost"
      [] OTHER -> "curve_power_hold_min"

\* The mode of the sysfs file of fan `channel` that fn serves: 0 where probe
\* created no such file.
sysfs_mode(p, fn, channel) ==
    IF ~aqc_curve_groups(p) \/ channel >= p.num_fans THEN 0
    ELSE IF sysfs_template(fn) \in {"temp_auto_point_temp", "temp_auto_point_pwm"}
    THEN aqc_curve_is_visible(p, channel)
    ELSE aqc_params_is_visible(p, params_index(channel, sysfs_template(fn)))

\* ------------------------------------------------------------------------
\* The profiles against the arrays, the label tables and the buffer
\* ------------------------------------------------------------------------
AQC_FAN_CTRL_CURVE_NUM_POINTS == 16

\* The label tables, by their names in the source.
Numbered(prefix, suffix, n) == [i \in 1..n |-> prefix \o ToString(i) \o suffix]
label_tables ==
    [label_d5next_temp |-> <<"Coolant temp">>,
     label_d5next_speeds |-> <<"Pump speed", "Fan speed">>,
     label_d5next_power |-> <<"Pump power", "Fan power">>,
     label_d5next_voltages |->
         <<"Pump voltage", "Fan voltage", "+5V voltage", "+12V voltage">>,
     label_d5next_current |-> <<"Pump current", "Fan current">>,
     label_temp_sensors |-> Numbered("Sensor ", "", 8),
     label_virtual_temp_sensors |-> Numbered("Virtual sensor ", "", 16),
     label_aquaero_calc_temp_sensors |-> Numbered("Calc. virtual sensor ", "", 4),
     label_aquaero_aquabus_temp_sensors |-> Numbered("Aquabus sensor ", "", 20),
     label_fan_speed |-> Numbered("Fan ", " speed", 8),
     label_fan_power |-> Numbered("Fan ", " power", 8),
     label_fan_voltage |-> Numbered("Fan ", " voltage", 8),
     label_fan_current |-> Numbered("Fan ", " current", 8),
     label_quadro_speeds |-> Numbered("Fan ", " speed", 4) \o <<"Flow speed [dL/h]">>,
     label_aquaero_speeds |->
         Numbered("Fan ", " speed", 4) \o Numbered("Flow sensor ", " [dL/h]", 2)
             \o Numbered("Aquabus flow ", " [dL/h]", 12),
     label_highflownext_temp_sensors |-> <<"Coolant temp", "External sensor">>,
     label_highflownext_fan_speed |->
         <<"Flow [dL/h]", "Water quality [%]", "Conductivity [nS/cm]">>,
     label_highflownext_power |-> <<"Dissipated power">>,
     label_highflownext_voltage |-> <<"+5V voltage", "+5V USB voltage">>,
     label_leakshield_temp_sensors |-> <<"Temperature 1", "Temperature 2">>,
     label_leakshield_fan_speed |->
         <<"Pressure [ubar]", "User-Provided Pump Speed", "User-Provided Flow [dL/h]",
           "Reservoir Volume [ml]", "Reservoir Filled [ml]">>,
     label_aquastreamxt_temp_sensors |->
         <<"Fan IC temp", "External sensor", "Coolant temp">>,
     label_aquastreamult_temp |-> <<"Coolant temp", "External temp">>,
     label_aquastreamult_speeds |->
         <<"Fan speed", "Pump speed", "Pressure [mbar]", "Flow speed [dL/h]">>,
     label_aquastreamult_power |-> <<"Fan power", "Pump power">>,
     label_aquastreamult_voltages |-> <<"Fan voltage", "Pump voltage">>,
     label_aquastreamult_current |-> <<"Fan current", "Pump current">>,
     label_poweradjust3_temp_sensors |-> <<"External sensor">>,
     label_highflow_temp |-> <<"External temp", "Internal temp">>]

\* The label pointers aqc_probe() sets for each product; the others stay
\* NULL (here <<>>).
labels_kzalloc ==
    [temp_label |-> <<>>, virtual_temp_label |-> <<>>, calc_virtual_temp_label |-> <<>>,
     aquabus_temp_label |-> <<>>, speed_label |-> <<>>, power_label |-> <<>>,
     voltage_label |-> <<>>, current_label |-> <<>>]
aqc_probe_labels(k) ==
    LET L == label_tables IN
    CASE k = "aquaero" ->
           [labels_kzalloc EXCEPT
              !.temp_label = L.label_temp_sensors,
              !.virtual_temp_label = L.label_virtual_temp_sensors,
              !.calc_virtual_temp_label = L.label_aquaero_calc_temp_sensors,
              !.aquabus_temp_label = L.label_aquaero_aquabus_temp_sensors,
              !.speed_label = L.label_aquaero_speeds,
              !.power_label = L.label_fan_power,
              !.voltage_label = L.label_fan_voltage,
              !.current_label = L.label_fan_current]
      [] k = "d5next" ->
           [labels_kzalloc EXCEPT
              !.temp_label = L.label_d5next_temp,
              !.virtual_temp_label = L.label_virtual_temp_sensors,
              !.speed_label = L.label_d5next_speeds,
              !.power_label = L.label_d5next_power,
              !.voltage_label = L.label_d5next_voltages,
              !.current_label = L.label_d5next_current]
      [] k = "farbwerk" ->
           [labels_kzalloc EXCEPT !.temp_label = L.label_temp_sensors]
      [] k = "farbwerk360" ->
           [labels_kzalloc EXCEPT
              !.temp_label = L.label_temp_sensors,
              !.virtual_temp_label = L.label_virtual_temp_sensors]
      [] k = "octo" ->
           [labels_kzalloc EXCEPT
              !.temp_label = L.label_temp_sensors,
              !.virtual_temp_label = L.label_virtual_temp_sensors,
              !.speed_label = L.label_fan_speed,
              !.power_label = L.label_fan_power,
              !.voltage_label = L.label_fan_voltage,
              !.current_label = L.label_fan_current]
      [] k = "quadro" ->
           [labels_kzalloc EXCEPT
              !.temp_label = L.label_temp_sensors,
              !.virtual_temp_label = L.label_virtual_temp_sensors,
              !.speed_label = L.label_quadro_speeds,
              !.power_label = L.label_fan_power,
              !.voltage_label = L.label_fan_voltage,
              !.current_label = L.label_fan_current]
      [] k = "highflownext" ->
           [labels_kzalloc EXCEPT
              !.temp_label = L.label_highflownext_temp_sensors,
              !.speed_label = L.label_highflownext_fan_speed,
              !.power_label = L.label_highflownext_power,
              !.voltage_label = L.label_highflownext_voltage]
      [] k = "leakshield" ->
           [labels_kzalloc EXCEPT
              !.temp_label = L.label_leakshield_temp_sensors,
              !.speed_label = L.label_leakshield_fan_speed]
      [] k = "aquastreamxt" ->
           [labels_kzalloc EXCEPT
              !.temp_label = L.label_aquastreamxt_temp_sensors,
              !.speed_label = L.label_d5next_speeds,
              !.voltage_label = L.label_d5next_voltages,
              !.current_label = L.label_d5next_current]
      [] k = "aquastreamult" ->
           [labels_kzalloc EXCEPT
              !.temp_label = L.label_aquastreamult_temp,
              !.speed_label = L.label_aquastreamult_speeds,
              !.power_label = L.label_aquastreamult_power,
              !.voltage_label = L.label_aquastreamult_voltages,
              !.current_label = L.label_aquastreamult_current]
      [] k = "poweradjust3" ->
           [labels_kzalloc EXCEPT !.temp_label = L.label_poweradjust3_temp_sensors]
      [] k = "highflow" ->
           [labels_kzalloc EXCEPT !.temp_label = L.label_highflow_temp]

\* The table and the index aqc_read_string() takes the label from, if the
\* Aquabus sensors were counted from the first calculated sensor.
aqc_read_string_entry_from_calc(p, type, channel) ==
    LET l == aqc_probe_labels(p.kind)
        num_non_calc_sensors == p.num_temp_sensors + p.num_virtual_temp_sensors
        num_native_sensors == p.num_calc_virt_temp_sensors + num_non_calc_sensors
    IN
    CASE type = "temp" ->
           IF channel < p.num_temp_sensors
           THEN [table |-> l.temp_label, index |-> channel]
           ELSE IF p.kind = "aquaero" /\ channel >= num_native_sensors
           THEN [table |-> l.aquabus_temp_label, index |-> channel - num_non_calc_sensors]
           ELSE IF p.kind = "aquaero" /\ channel >= num_non_calc_sensors
           THEN [table |-> l.calc_virtual_temp_label,
                 index |-> channel - num_non_calc_sensors]
           ELSE [table |-> l.virtual_temp_label, index |-> channel - p.num_temp_sensors]
      [] type = "fan" -> [table |-> l.speed_label, index |-> channel]
      [] type = "power" -> [table |-> l.power_label, index |-> channel]
      [] type = "in" -> [table |-> l.voltage_label, index |-> channel]
      [] OTHER -> [table |-> l.current_label, index |-> channel]

\* The table and the index aqc_read_string() takes the label from.
aqc_read_string_entry(p, type, channel) ==
    LET l == aqc_probe_labels(p.kind)
        num_non_calc_sensors == p.num_temp_sensors + p.num_virtual_temp_sensors
        num_native_sensors == p.num_calc_virt_temp_sensors + num_non_calc_sensors
    IN
    CASE type = "temp" ->
           IF channel < p.num_temp_sensors
           THEN [table |-> l.temp_label, index |-> channel]
           ELSE IF p.kind = "aquaero" /\ channel >= num_native_sensors
           THEN [table |-> l.aquabus_temp_label, index |-> channel - num_native_sensors]
           ELSE IF p.kind = "aquaero" /\ channel >= num_non_calc_sensors
           THEN [table |-> l.calc_virtual_temp_label,
                 index |-> channel - num_non_calc_sensors]
           ELSE [table |-> l.virtual_temp_label, index |-> channel - p.num_temp_sensors]
      [] type = "fan" -> [table |-> l.speed_label, index |-> channel]
      [] type = "power" -> [table |-> l.power_label, index |-> channel]
      [] type = "in" -> [table |-> l.voltage_label, index |-> channel]
      [] OTHER -> [table |-> l.current_label, index |-> channel]

\* aqc_read_string(): *str points at an entry of the table, here the index
\* of the entry; read past the end of the table it is whatever the memory
\* there holds, which the call carries in c.val.
LabelTypes == {"temp", "fan", "power", "in", "curr"}
aqc_read_string(p, c) ==
    IF c.type \notin LabelTypes THEN Return(-EOPNOTSUPP, NoVal)
    ELSE LET e == aqc_read_string_entry(p, c.type, c.channel) IN
         IF e.index + 1 \in DOMAIN e.table THEN Return(0, Val(e.index))
         ELSE Return(0, Val(c.val))

\* ------------------------------------------------------------------------
\* State
\* ------------------------------------------------------------------------
VARIABLES
    priv,                 \* the profile filled in by probe (never changes)
    hw,                   \* Aquaero hardware generation learnt from the sensor report
    dev_image,            \* the control report as the device holds it
    buffer,               \* priv->buffer
    mutex,                \* priv->mutex: the thread holding it, or NoThread
    last_ctrl_report_op,  \* priv->last_ctrl_report_op, in microseconds
    updated,              \* priv->updated, in jiffies
    snap,                 \* the cached sensor values (temp_input, speed_input, ...)
    now,                  \* the monotonic clock, in microseconds
    nticks,               \* how many times the clock was advanced explicitly
    pc,                   \* per thread: where it is in its handler
    call,                 \* per thread: the callback it is running
    stage,                \* per thread: the handler stage to resume at
    txn,                  \* per thread: the transaction in progress
    ret,                  \* per thread: the local "ret" of the transaction function
    val,                  \* per thread: the value aqc_get_ctrl_val stored in *val
    out,                  \* per thread: what the last callback returned
    ncalls,               \* per thread: callbacks started
    ntxn,                 \* per thread: transactions started
    wake,                 \* per thread: when its msleep() may return
    slept,                \* per thread: the wait the last delay step asked for, in ms
    got,                  \* history: the image the last successful GET returned
    sent,                 \* history: the image the last primary SET carried
    expect,               \* history: offset -> byte last written by a successful SET
    raced,                \* history, per thread: it found the mutex taken
    log,                  \* history, per thread: the transport requests of its callback
    irq,                  \* the raw_event callback: the report it was given, its position
    conv                  \* a conversion or bit helper: its input and what it returned

vars == <<priv, hw, dev_image, buffer, mutex, last_ctrl_report_op, updated, snap, now,
          nticks, pc, call, stage, txn, ret, val, out, ncalls, ntxn, wake, slept, got,
          sent, expect, raced, log, irq, conv>>

\* Time -----------------------------------------------------------------
USEC_PER_MSEC == 1000
USEC_PER_SEC == 1000000
jiffies == (now * HZ) \div USEC_PER_SEC
time_after(a, b) == a > b
ktime_ms_delta(later, earlier) == c_div(later - earlier, USEC_PER_MSEC)
STATUS_UPDATE_INTERVAL == 2 * HZ
\* d5next.c has its own window, in seconds.
STATUS_VALIDITY == 1

\* Images ---------------------------------------------------------------
Zeros(n) == [i \in 0..(n - 1) |-> 0]
\* A device image that differs from byte to byte and from seed to seed.
Image(seed, n) == [i \in 0..(n - 1) |-> (seed * 101 + i * 7 + (i \div 256) * 13 + 1) % 256]

\* hid_hw_raw_request() fails with one of these.
TransportErrors == {-EIO, -EPIPE}

\* aqc_set_buffer_val() if it stored one byte further on.
aqc_set_buffer_val_shifted(buf, offset, v, type) ==
    CASE type = AQC_LE16 -> [ret |-> 0, buffer |-> put_unaligned_le16(u16(v), buf, offset + 1)]
      [] type = AQC_BE16 -> [ret |-> 0, buffer |-> put_unaligned_be16(u16(v), buf, offset + 1)]
      [] type = AQC_8 -> [ret |-> 0, buffer |-> [buf EXCEPT ![offset + 1] = u8(v)]]
      [] OTHER -> [ret |-> -EINVAL, buffer |-> buf]

\* aqc_set_buffer_val(): ret and the buffer afterwards.
aqc_set_buffer_val(buf, offset, v, type) ==
    CASE type = AQC_LE16 -> [ret |-> 0, buffer |-> put_unaligned_le16(u16(v), buf, offset)]
      [] type = AQC_BE16 -> [ret |-> 0, buffer |-> put_unaligned_be16(u16(v), buf, offset)]
      [] type = AQC_8 -> [ret |-> 0, buffer |-> [buf EXCEPT ![offset] = u8(v)]]
      [] OTHER -> [ret |-> -EINVAL, buffer |-> buf]

\* The loop of aqc_set_ctrl_vals() if it went on after a patch that failed.
RECURSIVE aqc_set_buffer_vals_unchecked(_, _, _)
aqc_set_buffer_vals_unchecked(buf, x, i) ==
    IF i > x.len THEN [ret |-> 0, buffer |-> buf]
    ELSE LET r == aqc_set_buffer_val(buf, x.offsets[i], x.values[i], x.types[i])
         IN aqc_set_buffer_vals_unchecked(r.buffer, x, i + 1)

\* The loop of aqc_set_ctrl_vals() over the len patches, from patch i on.
RECURSIVE aqc_set_buffer_vals(_, _, _)
aqc_set_buffer_vals(buf, x, i) ==
    IF i > x.len THEN [ret |-> 0, buffer |-> buf]
    ELSE LET r == aqc_set_buffer_val(buf, x.offsets[i], x.values[i], x.types[i])
         IN IF r.ret < 0 THEN r ELSE aqc_set_buffer_vals(r.buffer, x, i + 1)

\* The switch of aqc_get_ctrl_val() on the value type.
aqc_get_buffer_val(buf, offset, type) ==
    CASE type = AQC_LE16 -> [ret |-> 0, v |-> s16(get_unaligned_le16(buf, offset))]
      [] type = AQC_BE16 -> [ret |-> 0, v |-> s16(get_unaligned_be16(buf, offset))]
      [] type = AQC_8 -> [ret |-> 0, v |-> buf[offset]]
      [] OTHER -> [ret |-> -EINVAL, v |-> 0]

\* Offsets a transaction patches.
PatchWidth(type) == IF type = AQC_8 THEN 1 ELSE 2
PatchedOffsets(x) ==
    UNION {{x.offsets[i] + k : k \in 0..(PatchWidth(x.types[i]) - 1)} : i \in 1..x.len}
\* The bytes a set transaction means to leave at those offsets.
PatchedBytes(x) ==
    aqc_set_buffer_vals([o \in PatchedOffsets(x) |-> 0], x, 1).buffer

IsSetTxn(x) == x.fn \in {"aqc_set_ctrl_vals", "octo_write"}
IsGetTxn(x) == x.fn \in {"aqc_get_ctrl_val", "octo_read"}
HasChecksum(p) == p.driver = "aquacomputer_octo" \/ p.kind \notin {"aquaero", "aquastreamxt"}
HasDelayCode(p) == p.driver = "aquacomputer_d5next"

Request(t, req, ok, id, size, data) ==
    [x |-> ntxn[t], req |-> req, ok |-> ok, id |-> id, size |-> size,
     data |-> data, at |-> now, prev |-> last_ctrl_report_op, wait |-> slept[t]]

\* Cached sensor values ---------------------------------------------------
snap_kzalloc ==
    [temp_input |-> [i \in 1..40 |-> 0], speed_input |-> [i \in 1..20 |-> 0],
     speed_input_min |-> [i \in 1..20 |-> 0], speed_input_target |-> [i \in 1..1 |-> 0],
     speed_input_max |-> [i \in 1..20 |-> 0], power_input |-> [i \in 1..8 |-> u32(0)],
     voltage_input |-> [i \in 1..8 |-> 0], current_input |-> [i \in 1..8 |-> 0],
     serial_number |-> <<0, 0>>, firmware_version |-> 0, power_cycles |-> u32(0),
     current_uptime |-> u32(0), total_uptime |-> u32(0)]

\* The sensor report a device answers or pushes with.
SensorReport(seed, n) == [i \in 0..(n - 1) |-> (seed * 53 + i * 3 + 5) % 256]

\* The decoding part of aqc_legacy_read(), from the report now in the buffer.
aqc_legacy_read_decode(p, buf, s) ==
    LET temps == [i \in 1..40 |->
                    IF i <= p.num_temp_sensors
                    THEN LET sensor_value ==
                                 get_unaligned_le16(buf, p.temp_sensor_start_offset
                                                         + (i - 1) * AQC_SENSOR_SIZE)
                         IN IF sensor_value = AQC_SENSOR_NA THEN -ENODATA
                            ELSE sensor_value * 10
                    ELSE s.temp_input[i]]
        s1 == [s EXCEPT !.temp_input = temps]
    IN
    CASE p.kind = "aquastreamxt" ->
           [s1 EXCEPT
              !.serial_number[1] = get_unaligned_le16(buf, p.serial_number_start_offset),
              !.firmware_version = get_unaligned_le16(buf, p.firmware_version_offset),
              !.speed_input[1] =
                  aqc_aquastreamxt_convert_pump_rpm(
                      get_unaligned_le16(buf, p.fan_sensor_offsets[1])),
              !.speed_input[2] =
                  IF get_unaligned_le16(buf, AQUASTREAMXT_FAN_STATUS_OFFSET)
                         = AQUASTREAMXT_FAN_STOPPED
                  THEN 0
                  ELSE aqc_aquastreamxt_convert_fan_rpm(
                           get_unaligned_le16(buf, p.fan_sensor_offsets[2])),
              !.current_input[1] =
                  u16(DIV_ROUND_CLOSEST(
                          get_unaligned_le16(buf, AQUASTREAMXT_PUMP_CURR_OFFSET) * 176, 100)
                      - 52),
              !.voltage_input[1] =
                  u16(DIV_ROUND_CLOSEST(
                          get_unaligned_le16(buf, AQUASTREAMXT_PUMP_VOLTAGE_OFFSET) * 1000,
                          61)),
              !.voltage_input[2] =
                  u16(DIV_ROUND_CLOSEST(
                          get_unaligned_le16(buf, AQUASTREAMXT_FAN_VOLTAGE_OFFSET) * 1000,
                          63))]
      [] p.kind = "highflow" ->
           [s1 EXCEPT
              !.serial_number[1] = get_unaligned_le16(buf, p.serial_number_start_offset),
              !.firmware_version = get_unaligned_le16(buf, p.firmware_version_offset)]
      [] OTHER -> s1

\* Push reports ------------------------------------------------------------
\* A temperature slot as aqc_raw_event() stores it.
aqc_temp_value(data, off) ==
    LET sensor_value == s16(get_unaligned_be16(data, off)) IN
    IF sensor_value = AQC_SENSOR_NA THEN -ENODATA ELSE sensor_value * 10

\* aqc_raw_event(): the cached values after the report in data was decoded.
aqc_raw_event(p, data, s) ==
    LET nt == p.num_temp_sensors
        nv == p.num_virtual_temp_sensors
        nc == p.num_calc_virt_temp_sensors
        nb == p.num_aquabus_temp_sensors
        nf == p.num_fans
        nfl == p.num_flow_sensors
        nbf == p.num_aquabus_flow_sensors
        aq == p.kind = "aquaero"
        fan(i, field) == get_unaligned_be16(data, p.fan_sensor_offsets[i] + field)
        temps == [i \in 1..40 |->
                    LET k == i - 1 IN
                    IF k < nt
                    THEN aqc_temp_value(data, p.temp_sensor_start_offset + k * AQC_SENSOR_SIZE)
                    ELSE IF k < nt + nv
                    THEN aqc_temp_value(data, p.virtual_temp_sensor_start_offset
                                                  + (k - nt) * AQC_SENSOR_SIZE)
                    ELSE IF aq /\ k < nt + nv + nc
                    THEN aqc_temp_value(data, p.calc_virt_temp_sensor_start_offset
                                                  + (k - nt - nv) * AQC_SENSOR_SIZE)
                    ELSE IF aq /\ k < nt + nv + nc + nb
                    THEN aqc_temp_value(data, p.aquabus_temp_sensor_start_offset
                                                  + (k - nt - nv - nc) * AQC_SENSOR_SIZE)
                    ELSE s.temp_input[i]]
        speeds == [i \in 1..20 |->
                     LET k == i - 1 IN
                     IF k < nf THEN fan(i, p.fan_structure.speed)
                     ELSE IF k < nf + nfl
                     THEN get_unaligned_be16(data, p.flow_sensors_start_offset
                                                       + (k - nf) * AQC_SENSOR_SIZE)
                     ELSE IF aq /\ k < nf + nfl + nbf
                     THEN LET sensor_value ==
                                  s16(get_unaligned_be16(
                                          data, p.aquabus_flow_sensors_start_offset
                                                    + (k - nf - nfl) * AQC_SENSOR_SIZE))
                          IN IF sensor_value = AQC_SENSOR_NA THEN -ENODATA
                             ELSE sensor_value
                     ELSE s.speed_input[i]]
        powers == [i \in 1..8 |->
                     IF i <= nf THEN u32_mul(fan(i, p.fan_structure.power), 10000)
                     ELSE s.power_input[i]]
        volts == [i \in 1..8 |->
                    IF i <= nf THEN u16(fan(i, p.fan_structure.voltage) * 10)
                    ELSE s.voltage_input[i]]
        currs == [i \in 1..8 |->
                    IF i <= nf THEN fan(i, p.fan_structure.curr) ELSE s.current_input[i]]
        s1 == [s EXCEPT
                 !.serial_number =
                     <<get_unaligned_be16(data, p.serial_number_start_offset),
                       get_unaligned_be16(data, p.serial_number_start_offset
                                                    + SERIAL_PART_OFFSET)>>,
                 !.firmware_version = get_unaligned_be16(data, p.firmware_version_offset),
                 !.temp_input = temps, !.speed_input = speeds, !.power_input = powers,
                 !.voltage_input = volts, !.current_input = currs,
                 !.power_cycles =
                     IF p.power_cycle_count_offset # 0
                     THEN get_unaligned_be32(data, p.power_cycle_count_offset)
                     ELSE s.power_cycles]
    IN
    CASE p.kind = "aquaero" ->
           [s1 EXCEPT
              !.current_uptime = get_unaligned_be32(data, AQUAERO_CURRENT_UPTIME_OFFSET),
              !.total_uptime = get_unaligned_be32(data, AQUAERO_TOTAL_UPTIME_OFFSET)]
      [] p.kind = "aquastreamult" ->
           [s1 EXCEPT
              !.speed_input[2] = get_unaligned_be16(data, AQUASTREAMULT_PUMP_OFFSET),
              !.speed_input[3] = get_unaligned_be16(data, AQUASTREAMULT_PRESSURE_OFFSET),
              !.speed_input[4] = get_unaligned_be16(data, AQUASTREAMULT_FLOW_SENSOR_OFFSET),
              !.power_input[2] =
                  u32_mul(get_unaligned_be16(data, AQUASTREAMULT_PUMP_POWER), 10000),
              !.voltage_input[2] =
                  u16(get_unaligned_be16(data, AQUASTREAMULT_PUMP_VOLTAGE) * 10),
              !.current_input[2] = get_unaligned_be16(data, AQUASTREAMULT_PUMP_CURRENT)]
      [] p.kind = "d5next" ->
           [s1 EXCEPT
              !.voltage_input[3] = u16(get_unaligned_be16(data, D5NEXT_5V_VOLTAGE) * 10),
              !.voltage_input[4] = u16(get_unaligned_be16(data, D5NEXT_12V_VOLTAGE) * 10)]
      [] p.kind = "highflownext" ->
           [s1 EXCEPT
              !.power_input[1] =
                  IF s1.temp_input[2] = -ENODATA THEN u32(-ENODATA)
                  ELSE u32_mul(get_unaligned_be16(data, HIGHFLOWNEXT_POWER), 1000000),
              !.voltage_input[1] =
                  u16(get_unaligned_be16(data, HIGHFLOWNEXT_5V_VOLTAGE) * 10),
              !.voltage_input[2] =
                  u16(get_unaligned_be16(data, HIGHFLOWNEXT_5V_VOLTAGE_USB) * 10),
              !.speed_input[2] = get_unaligned_be16(data, HIGHFLOWNEXT_WATER_QUALITY),
              !.speed_input[3] = get_unaligned_be16(data, HIGHFLOWNEXT_CONDUCTIVITY)]
      [] p.kind = "leakshield" ->
           LET rpm == get_unaligned_be16(data, LEAKSHIELD_PUMP_RPM_IN)
               flow == get_unaligned_be16(data, LEAKSHIELD_FLOW_IN)
           IN
           [s1 EXCEPT
              !.speed_input[1] =
                  s16(get_unaligned_be16(data, LEAKSHIELD_PRESSURE_ADJUSTED)) * 100,
              !.speed_input_min[1] = get_unaligned_be16(data, LEAKSHIELD_PRESSURE_MIN) * 100,
              !.speed_input_target[1] =
                  get_unaligned_be16(data, LEAKSHIELD_PRESSURE_TARGET) * 100,
              !.speed_input_max[1] = get_unaligned_be16(data, LEAKSHIELD_PRESSURE_MAX) * 100,
              !.speed_input[2] = IF rpm = AQC_SENSOR_NA THEN -ENODATA ELSE rpm,
              !.speed_input[3] = IF flow = AQC_SENSOR_NA THEN -ENODATA ELSE flow,
              !.speed_input[4] = get_unaligned_be16(data, LEAKSHIELD_RESERVOIR_VOLUME),
              !.speed_input[5] = get_unaligned_be16(data, LEAKSHIELD_RESERVOIR_FILLED),
              !.temp_input[2] = get_unaligned_be16(data, LEAKSHIELD_TEMPERATURE_2) * 10]
      [] OTHER -> s1

\* aqc_raw_event() on the Aquaero if it left the completion alone.
aqc_raw_event_hw_not_completing(p, data, h) ==
    IF p.kind = "aquaero"
    THEN LET aquaero_hw_version == get_unaligned_be16(data, AQUAERO_HARDWARE_VERSION) IN
         [received |-> h.received,
          aquaero_hw_kind |->
              CASE aquaero_hw_version = AQUAERO_5_HW_VERSION -> "aquaero5"
                [] aquaero_hw_version = AQUAERO_6_HW_VERSION -> "aquaero6"
                [] OTHER -> "unknown"]
    ELSE h

\* What aqc_raw_event() learns about the Aquaero from the report.
aqc_raw_event_hw(p, data, h) ==
    IF p.kind = "aquaero"
    THEN LET aquaero_hw_version == get_unaligned_be16(data, AQUAERO_HARDWARE_VERSION) IN
         [received |-> TRUE,
          aquaero_hw_kind |->
              CASE aquaero_hw_version = AQUAERO_5_HW_VERSION -> "aquaero5"
                [] aquaero_hw_version = AQUAERO_6_HW_VERSION -> "aquaero6"
                [] OTHER -> "unknown"]
    ELSE h

\* aquacomputer_octo.c: octo_raw_event().
octo_raw_event(data, s) ==
    LET fan(i, field) == get_unaligned_be16(data, octo_drv_sensor_fan_offsets[i] + field) IN
    [s EXCEPT
       !.serial_number = <<get_unaligned_be16(data, OCTO_DRV_SERIAL_FIRST_PART),
                           get_unaligned_be16(data, OCTO_DRV_SERIAL_SECOND_PART)>>,
       !.firmware_version = get_unaligned_be16(data, OCTO_DRV_FIRMWARE_VERSION),
       !.temp_input =
           [i \in 1..40 |->
              IF i <= OCTO_DRV_NUM_SENSORS
              THEN LET sensor_value ==
                           get_unaligned_be16(data, OCTO_DRV_SENSORS_START
                                                        + (i - 1) * OCTO_DRV_SENSOR_SIZE)
                   IN (IF sensor_value = OCTO_DRV_SENSOR_DISCONNECTED THEN 0
                       ELSE sensor_value) * 10
              ELSE s.temp_input[i]],
       !.speed_input =
           [i \in 1..20 |->
              IF i <= OCTO_DRV_NUM_FANS THEN fan(i, OCTO_DRV_FAN_SPEED_OFFSET)
              ELSE s.speed_input[i]],
       !.power_input =
           [i \in 1..8 |-> u32_mul(fan(i, OCTO_DRV_FAN_POWER_OFFSET), 10000)],
       !.voltage_input =
           [i \in 1..8 |-> u16(fan(i, OCTO_DRV_FAN_VOLTAGE_OFFSET) * 10)],
       !.current_input =
           [i \in 1..8 |-> fan(i, OCTO_DRV_FAN_CURRENT_OFFSET)]]

\* d5next.c: d5next_raw_event().
d5next_raw_event(data, s) ==
    [s EXCEPT
       !.serial_number = <<get_unaligned_be16(data, D5NEXT_SERIAL_START_OFFSET),
                           get_unaligned_be16(data, D5NEXT_SERIAL_PART_OFFSET)>>,
       !.firmware_version = get_unaligned_be16(data, D5NEXT_FIRMWARE_VERSION_OFFSET),
       !.power_cycles = get_unaligned_be32(data, D5NEXT_POWER_CYCLES_OFFSET),
       !.temp_input[1] = get_unaligned_be16(data, D5NEXT_COOLANT_TEMP_OFFSET) * 10,
       !.speed_input[1] = get_unaligned_be16(data, D5NEXT_PUMP_SPEED_OFFSET),
       !.speed_input[2] = get_unaligned_be16(data, D5NEXT_FAN_SPEED_OFFSET),
       !.power_input[1] = u32_mul(get_unaligned_be16(data, D5NEXT_PUMP_POWER_OFFSET), 10000),
       !.power_input[2] = u32_mul(get_unaligned_be16(data, D5NEXT_FAN_POWER_OFFSET), 10000),
       !.current_input[1] = get_unaligned_be16(data, D5NEXT_PUMP_CURRENT_OFFSET),
       !.current_input[2] = get_unaligned_be16(data, D5NEXT_FAN_CURRENT_OFFSET),
       !.voltage_input[1] = u16(get_unaligned_be16(data, D5NEXT_FAN_VOLTAGE_OFFSET) * 10),
       !.voltage_input[2] = u16(get_unaligned_be16(data, D5NEXT_PUMP_VOLTAGE_OFFSET) * 10),
       !.voltage_input[3] = u16(get_unaligned_be16(data, D5NEXT_5V_VOLTAGE_OFFSET) * 10)]

\* aquacomputer_farbwerk360.c: farbwerk360_raw_event().
farbwerk360_raw_event(data, s) ==
    [s EXCEPT
       !.serial_number = <<get_unaligned_be16(data, FARBWERK360_DRV_SERIAL_FIRST_PART),
                           get_unaligned_be16(data, FARBWERK360_DRV_SERIAL_SECOND_PART)>>,
       !.firmware_version = get_unaligned_be16(data, FARBWERK360_DRV_FIRMWARE_VERSION),
       !.temp_input =
           [i \in 1..40 |->
              IF i <= FARBWERK360_DRV_NUM_SENSORS
              THEN LET sensor_value ==
                           get_unaligned_be16(data, FARBWERK360_DRV_SENSOR_START
                                                  + (i - 1) * FARBWERK360_DRV_SENSOR_SIZE)
                   IN (IF sensor_value = FARBWERK360_DRV_SENSOR_DISCONNECTED THEN 0
                       ELSE sensor_value) * 10
              ELSE s.temp_input[i]]]

\* The report a push device sends: an Aquaero states its hardware version.
SensorReportLen == 512
PushReport(p, seed) ==
    IF p.driver = "aquacomputer_d5next" /\ p.kind = "aquaero"
    THEN put_unaligned_be16(AQUAERO_6_HW_VERSION, SensorReport(seed, SensorReportLen),
                            AQUAERO_HARDWARE_VERSION)
    ELSE SensorReport(seed, SensorReportLen)

\* The raw_event callback of the driver bound to the device.
raw_event_decode(p, data, s) ==
    CASE p.driver = "aquacomputer_octo" -> octo_raw_event(data, s)
      [] p.driver = "d5next" -> d5next_raw_event(data, s)
      [] p.driver = "aquacomputer_farbwerk360" -> farbwerk360_raw_event(data, s)
      [] OTHER -> aqc_raw_event(p, data, s)

\* Sensor reports as the device sends them --------------------------------
\* How many temperature channels the driver bound to the device decodes.
NumTemps(p) ==
    IF p.driver = "aquacomputer_octo" THEN OCTO_DRV_NUM_SENSORS
    ELSE IF p.driver = "d5next" THEN 1
    ELSE IF p.driver = "aquacomputer_farbwerk360" THEN FARBWERK360_DRV_NUM_SENSORS
    ELSE IF p.kind = "leakshield" THEN 2
    ELSE p.num_temp_sensors + p.num_virtual_temp_sensors

\* Where the report holds the raw value of temperature channel ch.
TempOffset(p, ch) ==
    IF p.driver = "aquacomputer_octo"
    THEN OCTO_DRV_SENSORS_START + ch * OCTO_DRV_SENSOR_SIZE
    ELSE IF p.driver = "d5next" THEN D5NEXT_COOLANT_TEMP_OFFSET
    ELSE IF p.driver = "aquacomputer_farbwerk360"
    THEN FARBWERK360_DRV_SENSOR_START + ch * FARBWERK360_DRV_SENSOR_SIZE
    ELSE IF p.kind = "leakshield" /\ ch = 1 THEN LEAKSHIELD_TEMPERATURE_2
    ELSE IF ch < p.num_temp_sensors
    THEN p.temp_sensor_start_offset + ch * AQC_SENSOR_SIZE
    ELSE p.virtual_temp_sensor_start_offset + (ch - p.num_temp_sensors) * AQC_SENSOR_SIZE

\* A report: its id, the seed of its bytes, its size, and the raw value the
\* device reports for temperature channel ch (NoRaw: the seeded bytes).
NoRaw == -1
Rep(id, seed, size, ch, raw) ==
    [id |-> id, seed |-> seed, size |-> size, ch |-> ch, raw |-> raw]
WithTemp(p, report, r) ==
    IF r.raw = NoRaw \/ r.ch >= NumTemps(p) THEN report
    ELSE IF p.status_report_id # 0
    THEN put_unaligned_le16(r.raw, report, TempOffset(p, r.ch))
    ELSE put_unaligned_be16(r.raw, report, TempOffset(p, r.ch))

\* What the bytes after the end of a short report may hold.
JunkBytes == {0, 255}
\* The memory raw_event is handed: the report, and whatever follows it.
ReportData(p, r, junk) ==
    LET full == WithTemp(p, PushReport(p, r.seed), r) IN
    [i \in 0..(SensorReportLen - 1) |-> IF i < r.size THEN full[i] ELSE junk]
\* The raw temperatures a report carries for the first NumChannels channels.
ReportTemps(p, data) ==
    [ch \in 0..(NumChannels - 1) |->
        IF ch < NumTemps(p) THEN get_unaligned_be16(data, TempOffset(p, ch)) ELSE NoRaw]
\* The status report a polled device answers with.
StatusReport(p, r) == WithTemp(p, SensorReport(r.seed, p.buffer_size), r)

\* Answers to a poll with the seeded bytes.
PlainPolls == {Rep(0, seed, 0, 0, NoRaw) : seed \in 0..MaxSeed}
\* Full-size reports with the seeded bytes, under the status id or the next.
PlainReports ==
    {Rep(id, seed, SensorReportLen, 0, NoRaw) :
         id \in {STATUS_REPORT_ID, STATUS_REPORT_ID + 1}, seed \in 0..MaxSeed}

\* The offsets at which the raw_event callback reads a 16-bit field.
Be32At(off) == {off, off + 2}
aqc_raw_event_reads(p) ==
    {p.serial_number_start_offset, p.serial_number_start_offset + SERIAL_PART_OFFSET,
     p.firmware_version_offset}
    \cup {p.temp_sensor_start_offset + k * AQC_SENSOR_SIZE :
              k \in 0..(p.num_temp_sensors - 1)}
    \cup {p.virtual_temp_sensor_start_offset + k * AQC_SENSOR_SIZE :
              k \in 0..(p.num_virtual_temp_sensors - 1)}
    \cup {p.fan_sensor_offsets[i] + f :
              i \in 1..p.num_fans,
              f \in {p.fan_structure.speed, p.fan_structure.power,
                     p.fan_structure.voltage, p.fan_structure.curr}}
    \cup {p.flow_sensors_start_offset + k * AQC_SENSOR_SIZE :
              k \in 0..(p.num_flow_sensors - 1)}
    \cup (IF p.power_cycle_count_offset # 0 THEN Be32At(p.power_cycle_count_offset)
          ELSE {})
    \cup (CASE p.kind = "aquaero" ->
                 {AQUAERO_HARDWARE_VERSION}
                 \cup Be32At(AQUAERO_CURRENT_UPTIME_OFFSET)
                 \cup Be32At(AQUAERO_TOTAL_UPTIME_OFFSET)
                 \cup {p.aquabus_flow_sensors_start_offset + k * AQC_SENSOR_SIZE :
                           k \in 0..(p.num_aquabus_flow_sensors - 1)}
                 \cup {p.calc_virt_temp_sensor_start_offset + k * AQC_SENSOR_SIZE :
                           k \in 0..(p.num_calc_virt_temp_sensors - 1)}
                 \cup {p.aquabus_temp_sensor_start_offset + k * AQC_SENSOR_SIZE :
                           k \in 0..(p.num_aquabus_temp_sensors - 1)}
             [] p.kind = "aquastreamult" ->
                 {AQUASTREAMULT_PUMP_OFFSET, AQUASTREAMULT_PRESSURE_OFFSET,
                  AQUASTREAMULT_FLOW_SENSOR_OFFSET, AQUASTREAMULT_PUMP_POWER,
                  AQUASTREAMULT_PUMP_VOLTAGE, AQUASTREAMULT_PUMP_CURRENT}
             [] p.kind = "d5next" -> {D5NEXT_5V_VOLTAGE, D5NEXT_12V_VOLTAGE}
             [] p.kind = "highflownext" ->
                 {HIGHFLOWNEXT_POWER, HIGHFLOWNEXT_5V_VOLTAGE,
                  HIGHFLOWNEXT_5V_VOLTAGE_USB, HIGHFLOWNEXT_WATER_QUALITY,
                  HIGHFLOWNEXT_CONDUCTIVITY}
             [] p.kind = "leakshield" ->
                 {LEAKSHIELD_PRESSURE_ADJUSTED, LEAKSHIELD_PRESSURE_MIN,
                  LEAKSHIELD_PRESSURE_TARGET, LEAKSHIELD_PRESSURE_MAX,
                  LEAKSHIELD_PUMP_RPM_IN, LEAKSHIELD_FLOW_IN,
                  LEAKSHIELD_RESERVOIR_VOLUME, LEAKSHIELD_RESERVOIR_FILLED,
                  LEAKSHIELD_TEMPERATURE_2}
             [] OTHER -> {})
octo_raw_event_reads ==
    {OCTO_DRV_SERIAL_FIRST_PART, OCTO_DRV_SERIAL_SECOND_PART, OCTO_DRV_FIRMWARE_VERSION}
    \cup {OCTO_DRV_SENSORS_START + k * OCTO_DRV_SENSOR_SIZE :
              k \in 0..(OCTO_DRV_NUM_SENSORS - 1)}
    \cup {octo_drv_sensor_fan_offsets[i] + f :
              i \in 1..OCTO_DRV_NUM_FANS,
              f \in {OCTO_DRV_FAN_SPEED_OFFSET, OCTO_DRV_FAN_POWER_OFFSET,
                     OCTO_DRV_FAN_VOLTAGE_OFFSET, OCTO_DRV_FAN_CURRENT_OFFSET}}
d5next_raw_event_reads ==
    {D5NEXT_SERIAL_START_OFFSET, D5NEXT_SERIAL_PART_OFFSET,
     D5NEXT_FIRMWARE_VERSION_OFFSET, D5NEXT_COOLANT_TEMP_OFFSET,
     D5NEXT_PUMP_SPEED_OFFSET, D5NEXT_FAN_SPEED_OFFSET, D5NEXT_PUMP_POWER_OFFSET,
     D5NEXT_FAN_POWER_OFFSET, D5NEXT_PUMP_CURRENT_OFFSET, D5NEXT_FAN_CURRENT_OFFSET,
     D5NEXT_FAN_VOLTAGE_OFFSET, D5NEXT_PUMP_VOLTAGE_OFFSET, D5NEXT_5V_VOLTAGE_OFFSET}
    \cup Be32At(D5NEXT_POWER_CYCLES_OFFSET)
farbwerk360_raw_event_reads ==
    {FARBWERK360_DRV_SERIAL_FIRST_PART, FARBWERK360_DRV_SERIAL_SECOND_PART,
     FARBWERK360_DRV_FIRMWARE_VERSION}
    \cup {FARBWERK360_DRV_SENSOR_START + k * FARBWERK360_DRV_SENSOR_SIZE :
              k \in 0..(FARBWERK360_DRV_NUM_SENSORS - 1)}
raw_event_reads(p) ==
    CASE p.driver = "aquacomputer_octo" -> octo_raw_event_reads
      [] p.driver = "d5next" -> d5next_raw_event_reads
      [] p.driver = "aquacomputer_farbwerk360" -> farbwerk360_raw_event_reads
      [] OTHER -> aqc_raw_event_reads(p)
\* One past the last byte the callback reads.
ReadEnd(p) == CHOOSE e \in {o + 2 : o \in raw_event_reads(p)} :
                  \A o \in raw_event_reads(p) : o + 2 <= e

\* ------------------------------------------------------------------------
\* Steps of a thread
\* ------------------------------------------------------------------------
\* The freshness test at the top of the read callbacks.
Stale == time_after(jiffies, updated + STATUS_UPDATE_INTERVAL)

Handler(t) ==
    LET c == call[t] IN
    CASE c.fn = "aqc_read" -> aqc_read(priv, c, stage[t], ret[t], val[t], snap, Stale)
      [] c.fn = "aqc_write" -> aqc_write(priv, c, stage[t], ret[t], val[t])
      [] c.fn = "octo_read" -> octo_read(priv, c, stage[t], ret[t], val[t], snap, Stale)
      [] c.fn = "octo_write" -> octo_write(priv, c, stage[t], ret[t], val[t])
      [] c.fn = "d5next_read" ->
           d5next_read(c, snap, time_after(jiffies, updated + STATUS_VALIDITY * HZ))
      [] c.fn = "farbwerk360_read" -> farbwerk360_read(c, snap, Stale)
      [] c.fn \in StoreFns -> aqc_store(priv, c, stage[t], ret[t], val[t])
      [] c.fn = "aqc_set_ctrl_vals" -> aqc_set_ctrl_vals_typed(priv, c, stage[t], ret[t])
      [] c.fn = "aqc_read_string" -> aqc_read_string(priv, c)
      [] OTHER -> aqc_show(priv, c, stage[t], ret[t], val[t])

\* A callback is entered with call c, for the n-th time at most.
EnterUpTo(t, c, n) ==
    /\ pc[t] = "idle"
    /\ ncalls[t] < n
    /\ call' = [call EXCEPT ![t] = c]
    /\ stage' = [stage EXCEPT ![t] = "entry"]
    /\ ncalls' = [ncalls EXCEPT ![t] = @ + 1]
    /\ ntxn' = [ntxn EXCEPT ![t] = 0]
    /\ log' = [log EXCEPT ![t] = <<>>]
    /\ raced' = [raced EXCEPT ![t] = FALSE]
    /\ pc' = [pc EXCEPT ![t] = "run"]
    /\ UNCHANGED <<priv, irq, conv, hw, dev_image, buffer, mutex, last_ctrl_report_op, updated,
                   snap, now, nticks, txn, ret, val, out, wake, slept, got, sent, expect>>

Enter(t, c) == EnterUpTo(t, c, MaxCalls)

\* The callback runs up to its next transaction or to its return, where its
\* locals go out of scope.
Run(t) ==
    /\ pc[t] = "run"
    /\ LET h == Handler(t) IN
       IF h.do = "return"
       THEN /\ out' = [out EXCEPT ![t] = [ret |-> h.ret, val |-> h.val]]
            /\ pc' = [pc EXCEPT ![t] = "idle"]
            /\ txn' = [txn EXCEPT ![t] = NoTxn]
            /\ stage' = [stage EXCEPT ![t] = "entry"]
            /\ ret' = [ret EXCEPT ![t] = 0]
            /\ val' = [val EXCEPT ![t] = 0]
            /\ UNCHANGED raced
       ELSE /\ txn' = [txn EXCEPT ![t] = h.txn]
            /\ stage' = [stage EXCEPT ![t] = h.then]
            /\ pc' = [pc EXCEPT ![t] = "lock"]
            /\ raced' = [raced EXCEPT ![t] = @ \/ mutex # NoThread]
            /\ UNCHANGED <<out, ret, val>>
    /\ UNCHANGED <<priv, irq, conv, hw, dev_image, buffer, mutex, last_ctrl_report_op, updated,
                   snap, now, nticks, call, ncalls, ntxn, wake, slept, got, sent, expect,
                   log>>

\* mutex_lock() if it did not wait for the holder.
mutex_lock_unguarded(t) ==
    /\ pc[t] = "lock"
    /\ mutex' = t
    /\ ntxn' = [ntxn EXCEPT ![t] = @ + 1]
    /\ slept' = [slept EXCEPT ![t] = 0]
    /\ pc' = [pc EXCEPT ![t] =
                 IF txn[t].fn = "aqc_legacy_read" THEN "status_get"
                 ELSE IF HasDelayCode(priv) THEN "delay_get" ELSE "get"]
    /\ UNCHANGED <<priv, irq, conv, hw, dev_image, buffer, last_ctrl_report_op, updated, snap, now,
                   nticks, call, stage, txn, ret, val, out, ncalls, wake, got, sent,
                   expect, log, raced>>

\* mutex_lock(&priv->mutex) at the top of aqc_get_ctrl_val, aqc_set_ctrl_vals,
\* aqc_legacy_read and of the pwm cases of octo_read and octo_write.
mutex_lock(t) ==
    /\ pc[t] = "lock"
    /\ mutex = NoThread
    /\ mutex' = t
    /\ ntxn' = [ntxn EXCEPT ![t] = @ + 1]
    /\ slept' = [slept EXCEPT ![t] = 0]
    /\ pc' = [pc EXCEPT ![t] =
                 IF txn[t].fn = "aqc_legacy_read" THEN "status_get"
                 ELSE IF HasDelayCode(priv) THEN "delay_get" ELSE "get"]
    /\ UNCHANGED <<priv, irq, conv, hw, dev_image, buffer, last_ctrl_report_op, updated, snap, now,
                   nticks, call, stage, txn, ret, val, out, ncalls, wake, got, sent,
                   expect, log, raced>>

\* The delay step if the elapsed time were rounded up to whole milliseconds.
aqc_delay_ctrl_report_rounded(t) ==
    /\ pc[t] \in {"delay_get", "delay_send"}
    /\ LET delta == ktime_ms_delta(now - last_ctrl_report_op + USEC_PER_MSEC - 1, 0)
           after == IF pc[t] = "delay_get" THEN "get"
                    ELSE IF HasChecksum(priv) THEN "checksum" ELSE "send"
       IN IF priv.ctrl_report_delay # 0 /\ delta < priv.ctrl_report_delay
          THEN /\ wake' = [wake EXCEPT ![t] =
                              now + (priv.ctrl_report_delay - delta) * USEC_PER_MSEC]
               /\ slept' = [slept EXCEPT ![t] = priv.ctrl_report_delay - delta]
               /\ pc' = [pc EXCEPT ![t] =
                            IF pc[t] = "delay_get" THEN "sleep_get" ELSE "sleep_send"]
          ELSE /\ slept' = [slept EXCEPT ![t] = 0]
               /\ pc' = [pc EXCEPT ![t] = after]
               /\ UNCHANGED wake
    /\ UNCHANGED <<priv, irq, conv, hw, dev_image, buffer, mutex, last_ctrl_report_op, updated,
                   snap, now, nticks, call, stage, txn, ret, val, out, ncalls, ntxn, got,
                   sent, expect, log, raced>>

\* aqc_delay_ctrl_report(), up to the call of msleep().
aqc_delay_ctrl_report(t) ==
    /\ pc[t] \in {"delay_get", "delay_send"}
    /\ LET delta == ktime_ms_delta(now, last_ctrl_report_op)
           after == IF pc[t] = "delay_get" THEN "get"
                    ELSE IF HasChecksum(priv) THEN "checksum" ELSE "send"
       IN IF priv.ctrl_report_delay # 0 /\ delta < priv.ctrl_report_delay
          THEN /\ wake' = [wake EXCEPT ![t] =
                              now + (priv.ctrl_report_delay - delta) * USEC_PER_MSEC]
               /\ slept' = [slept EXCEPT ![t] = priv.ctrl_report_delay - delta]
               /\ pc' = [pc EXCEPT ![t] =
                            IF pc[t] = "delay_get" THEN "sleep_get" ELSE "sleep_send"]
          ELSE /\ slept' = [slept EXCEPT ![t] = 0]
               /\ pc' = [pc EXCEPT ![t] = after]
               /\ UNCHANGED wake
    /\ UNCHANGED <<priv, irq, conv, hw, dev_image, buffer, mutex, last_ctrl_report_op, updated,
                   snap, now, nticks, call, stage, txn, ret, val, out, ncalls, ntxn, got,
                   sent, expect, log, raced>>

\* msleep() returns: not before the time asked for has passed.
msleep(t) ==
    /\ pc[t] \in {"sleep_get", "sleep_send"}
    /\ now' = IF now < wake[t] THEN wake[t] ELSE now
    /\ pc' = [pc EXCEPT ![t] =
                 IF pc[t] = "sleep_get" THEN "get"
                 ELSE IF HasChecksum(priv) THEN "checksum" ELSE "send"]
    /\ UNCHANGED <<priv, irq, conv, hw, dev_image, buffer, mutex, last_ctrl_report_op, updated,
                   snap, nticks, call, stage, txn, ret, val, out, ncalls, ntxn, wake,
                   slept, got, sent, expect, log, raced>>

\* The GET step if a set transaction went on after a failed GET.
aqc_get_ctrl_data_unchecked(t) ==
    /\ pc[t] = "get"
    /\ \E ok \in BOOLEAN :
         LET x == txn[t]
             filled == IF ok THEN dev_image ELSE Zeros(priv.buffer_size)
             read == aqc_get_buffer_val(filled, x.offsets[1], x.types[1])
         IN
         /\ buffer' = filled
         /\ got' = IF ok THEN dev_image ELSE got
         /\ log' = [log EXCEPT ![t] = Append(@, Request(t, "GET", ok, priv.ctrl_report_id,
                                       priv.buffer_size, <<>>))]
         /\ last_ctrl_report_op' = IF HasDelayCode(priv) THEN now ELSE last_ctrl_report_op
         /\ IF ~ok /\ IsGetTxn(x)
            THEN /\ ret' = [ret EXCEPT ![t] = -ENODATA]
                 /\ pc' = [pc EXCEPT ![t] = "unlock"]
                 /\ UNCHANGED val
            ELSE IF IsGetTxn(x)
            THEN /\ ret' = [ret EXCEPT ![t] =
                               IF read.ret < 0 THEN read.ret ELSE priv.buffer_size]
                 /\ val' = [val EXCEPT ![t] = IF read.ret < 0 THEN @ ELSE read.v]
                 /\ pc' = [pc EXCEPT ![t] = "unlock"]
            ELSE /\ ret' = [ret EXCEPT ![t] = priv.buffer_size]
                 /\ pc' = [pc EXCEPT ![t] = "patch"]
                 /\ UNCHANGED val
    /\ UNCHANGED <<priv, irq, conv, hw, dev_image, mutex, updated, snap, now, nticks, call, stage,
                   txn, out, ncalls, ntxn, wake, slept, sent, expect, raced>>

\* aqc_get_ctrl_data() after the delay (octo_get_ctrl_data() in the Octo
\* driver): memset, the GET request, and what the caller does with the result
\* while it still holds the mutex.
aqc_get_ctrl_data(t) ==
    /\ pc[t] = "get"
    /\ \E ok \in BOOLEAN :
         LET x == txn[t]
             filled == IF ok THEN dev_image ELSE Zeros(priv.buffer_size)
             read == aqc_get_buffer_val(filled, x.offsets[1], x.types[1])
         IN
         /\ buffer' = filled
         /\ got' = IF ok THEN dev_image ELSE got
         /\ log' = [log EXCEPT ![t] = Append(@, Request(t, "GET", ok, priv.ctrl_report_id,
                                       priv.buffer_size, <<>>))]
         /\ last_ctrl_report_op' = IF HasDelayCode(priv) THEN now ELSE last_ctrl_report_op
         /\ IF ~ok
            THEN /\ ret' = [ret EXCEPT ![t] = -ENODATA]
                 /\ pc' = [pc EXCEPT ![t] = "unlock"]
                 /\ UNCHANGED val
            ELSE IF IsGetTxn(x)
            THEN /\ ret' = [ret EXCEPT ![t] =
                               IF read.ret < 0 THEN read.ret ELSE priv.buffer_size]
                 /\ val' = [val EXCEPT ![t] = IF read.ret < 0 THEN @ ELSE read.v]
                 /\ pc' = [pc EXCEPT ![t] = "unlock"]
            ELSE /\ ret' = [ret EXCEPT ![t] = priv.buffer_size]
                 /\ pc' = [pc EXCEPT ![t] = "patch"]
                 /\ UNCHANGED val
    /\ UNCHANGED <<priv, irq, conv, hw, dev_image, mutex, updated, snap, now, nticks, call, stage,
                   txn, out, ncalls, ntxn, wake, slept, sent, expect, raced>>

\* The patch loop of aqc_set_ctrl_vals() (the put_unaligned_be16 of octo_write).
aqc_set_buffer_vals_step(t) ==
    /\ pc[t] = "patch"
    /\ LET r == aqc_set_buffer_vals(buffer, txn[t], 1) IN
       /\ buffer' = r.buffer
       /\ ret' = [ret EXCEPT ![t] = r.ret]
       /\ pc' = [pc EXCEPT ![t] =
                    IF r.ret < 0 THEN "unlock"
                    ELSE IF HasDelayCode(priv) THEN "delay_send"
                    ELSE "checksum"]
    /\ UNCHANGED <<priv, irq, conv, hw, dev_image, mutex, last_ctrl_report_op, updated, snap, now,
                   nticks, call, stage, txn, val, out, ncalls, ntxn, wake, slept, got,
                   sent, expect, log, raced>>

\* The checksum step if it left the last covered byte out.
aqc_send_ctrl_data_checksum_short(t) ==
    /\ pc[t] = "checksum"
    /\ LET crc == crc16(65535, buffer, priv.checksum_start, priv.checksum_length - 1)
           checksum == 65535 - crc
       IN buffer' = put_unaligned_be16(checksum, buffer, priv.checksum_offset)
    /\ pc' = [pc EXCEPT ![t] = "send"]
    /\ UNCHANGED <<priv, irq, conv, hw, dev_image, mutex, last_ctrl_report_op, updated, snap, now,
                   nticks, call, stage, txn, ret, val, out, ncalls, ntxn, wake, slept,
                   got, sent, expect, log, raced>>

\* aqc_send_ctrl_data() / octo_send_ctrl_data(): the checksum is computed over
\* the patched buffer and stored big-endian at checksum_offset.
aqc_send_ctrl_data_checksum(t) ==
    /\ pc[t] = "checksum"
    /\ LET crc == crc16(65535, buffer, priv.checksum_start, priv.checksum_length)
           checksum == 65535 - crc
       IN buffer' = put_unaligned_be16(checksum, buffer, priv.checksum_offset)
    /\ pc' = [pc EXCEPT ![t] = "send"]
    /\ UNCHANGED <<priv, irq, conv, hw, dev_image, mutex, last_ctrl_report_op, updated, snap, now,
                   nticks, call, stage, txn, ret, val, out, ncalls, ntxn, wake, slept,
                   got, sent, expect, log, raced>>

\* The primary SET if its result were not tested before the secondary SET.
aqc_send_ctrl_data_primary_unchecked(t) ==
    /\ pc[t] = "send"
    /\ sent' = buffer
    /\ \/ /\ dev_image' = buffer
          /\ expect' = LET b == PatchedBytes(txn[t]) IN
                       [o \in DOMAIN expect \cup DOMAIN b |->
                          IF o \in DOMAIN b THEN b[o] ELSE expect[o]]
          /\ ret' = [ret EXCEPT ![t] = priv.buffer_size]
          /\ log' = [log EXCEPT ![t] = Append(@, Request(t, "SET", TRUE, priv.ctrl_report_id,
                                        priv.buffer_size, <<>>))]
          /\ pc' = [pc EXCEPT ![t] = "send2"]
          /\ UNCHANGED last_ctrl_report_op
       \/ \E e \in TransportErrors :
            /\ ret' = [ret EXCEPT ![t] = e]
            /\ log' = [log EXCEPT ![t] = Append(@, Request(t, "SET", FALSE, priv.ctrl_report_id,
                                          priv.buffer_size, <<>>))]
            /\ pc' = [pc EXCEPT ![t] = "send2"]
            /\ UNCHANGED <<dev_image, expect, last_ctrl_report_op>>
    /\ UNCHANGED <<priv, irq, conv, hw, buffer, mutex, updated, snap, now, nticks, call, stage, txn,
                   val, out, ncalls, ntxn, wake, slept, got, raced>>

\* The primary SET of the buffer.  The device takes the image only when the
\* request succeeds.
aqc_send_ctrl_data_primary(t) ==
    /\ pc[t] = "send"
    /\ sent' = buffer
    /\ \/ /\ dev_image' = buffer
          /\ expect' = LET b == PatchedBytes(txn[t]) IN
                       [o \in DOMAIN expect \cup DOMAIN b |->
                          IF o \in DOMAIN b THEN b[o] ELSE expect[o]]
          /\ ret' = [ret EXCEPT ![t] = priv.buffer_size]
          /\ log' = [log EXCEPT ![t] = Append(@, Request(t, "SET", TRUE, priv.ctrl_report_id,
                                        priv.buffer_size, <<>>))]
          /\ pc' = [pc EXCEPT ![t] = "send2"]
          /\ UNCHANGED last_ctrl_report_op
       \/ \E e \in TransportErrors :
            /\ ret' = [ret EXCEPT ![t] = e]
            /\ log' = [log EXCEPT ![t] = Append(@, Request(t, "SET", FALSE, priv.ctrl_report_id,
                                          priv.buffer_size, <<>>))]
            /\ last_ctrl_report_op' =
                   IF HasDelayCode(priv) THEN now ELSE last_ctrl_report_op
            /\ pc' = [pc EXCEPT ![t] = "unlock"]
            /\ UNCHANGED <<dev_image, expect>>
    /\ UNCHANGED <<priv, irq, conv, hw, buffer, mutex, updated, snap, now, nticks, call, stage, txn,
                   val, out, ncalls, ntxn, wake, slept, got, raced>>

\* The secondary SET if its failure were not passed on.
aqc_send_ctrl_data_secondary_swallowed(t) ==
    /\ pc[t] = "send2"
    /\ \E r \in {priv.secondary_ctrl_report_size} \cup TransportErrors :
         /\ ret' = [ret EXCEPT ![t] = IF r < 0 THEN 0 ELSE r]
         /\ log' = [log EXCEPT ![t] = Append(@, Request(t, "SET2", r >= 0, priv.secondary_ctrl_report_id,
                                       priv.secondary_ctrl_report_size,
                                       priv.secondary_ctrl_report))]
    /\ last_ctrl_report_op' = IF HasDelayCode(priv) THEN now ELSE last_ctrl_report_op
    /\ pc' = [pc EXCEPT ![t] = "unlock"]
    /\ UNCHANGED <<priv, irq, conv, hw, dev_image, buffer, mutex, updated, snap, now, nticks, call,
                   stage, txn, val, out, ncalls, ntxn, wake, slept, got, sent, expect, raced>>

\* The secondary SET that follows a successful primary SET.
aqc_send_ctrl_data_secondary(t) ==
    /\ pc[t] = "send2"
    /\ \E r \in {priv.secondary_ctrl_report_size} \cup TransportErrors :
         /\ ret' = [ret EXCEPT ![t] = r]
         /\ log' = [log EXCEPT ![t] = Append(@, Request(t, "SET2", r >= 0, priv.secondary_ctrl_report_id,
                                       priv.secondary_ctrl_report_size,
                                       priv.secondary_ctrl_report))]
    /\ last_ctrl_report_op' = IF HasDelayCode(priv) THEN now ELSE last_ctrl_report_op
    /\ pc' = [pc EXCEPT ![t] = "unlock"]
    /\ UNCHANGED <<priv, irq, conv, hw, dev_image, buffer, mutex, updated, snap, now, nticks, call,
                   stage, txn, val, out, ncalls, ntxn, wake, slept, got, sent, expect, raced>>

\* aqc_legacy_read() if it stamped priv->updated whether or not the GET
\* succeeded.
aqc_legacy_read_from_stamping(t, R) ==
    /\ pc[t] = "status_get"
    /\ \/ \E r \in R :
            LET report == StatusReport(priv, r) IN
            /\ buffer' = report
            /\ snap' = aqc_legacy_read_decode(priv, report, snap)
            /\ ret' = [ret EXCEPT ![t] = priv.buffer_size]
            /\ log' = [log EXCEPT ![t] = Append(@, Request(t, "STATUS", TRUE, priv.status_report_id,
                                          priv.buffer_size, <<>>))]
       \/ \E e \in TransportErrors :
            /\ buffer' = Zeros(priv.buffer_size)
            /\ ret' = [ret EXCEPT ![t] = e]
            /\ log' = [log EXCEPT ![t] = Append(@, Request(t, "STATUS", FALSE, priv.status_report_id,
                                          priv.buffer_size, <<>>))]
            /\ UNCHANGED snap
    /\ updated' = jiffies
    /\ pc' = [pc EXCEPT ![t] = "unlock"]
    /\ UNCHANGED <<priv, irq, conv, hw, dev_image, mutex, last_ctrl_report_op, now, nticks, call,
                   stage, txn, val, out, ncalls, ntxn, wake, slept, got, sent, expect, raced>>

\* aqc_legacy_read() between lock and unlock: the status report is fetched
\* into the shared buffer and decoded.
aqc_legacy_read_from(t, R) ==
    /\ pc[t] = "status_get"
    /\ \/ \E r \in R :
            LET report == StatusReport(priv, r) IN
            /\ buffer' = report
            /\ snap' = aqc_legacy_read_decode(priv, report, snap)
            /\ updated' = jiffies
            /\ ret' = [ret EXCEPT ![t] = priv.buffer_size]
            /\ log' = [log EXCEPT ![t] = Append(@, Request(t, "STATUS", TRUE, priv.status_report_id,
                                          priv.buffer_size, <<>>))]
       \/ \E e \in TransportErrors :
            /\ buffer' = Zeros(priv.buffer_size)
            /\ ret' = [ret EXCEPT ![t] = e]
            /\ log' = [log EXCEPT ![t] = Append(@, Request(t, "STATUS", FALSE, priv.status_report_id,
                                          priv.buffer_size, <<>>))]
            /\ UNCHANGED <<snap, updated>>
    /\ pc' = [pc EXCEPT ![t] = "unlock"]
    /\ UNCHANGED <<priv, irq, conv, hw, dev_image, mutex, last_ctrl_report_op, now, nticks, call,
                   stage, txn, val, out, ncalls, ntxn, wake, slept, got, sent, expect, raced>>

aqc_legacy_read(t) == aqc_legacy_read_from(t, PlainPolls)

\* mutex_unlock() if the transaction function returned with the mutex held.
mutex_unlock_holding(t) ==
    /\ pc[t] = "unlock"
    /\ pc' = [pc EXCEPT ![t] = "run"]
    /\ UNCHANGED <<priv, irq, conv, hw, dev_image, buffer, mutex, last_ctrl_report_op, updated,
                   snap, now, nticks, call, stage, txn, ret, val, out, ncalls, ntxn, wake,
                   slept, got, sent, expect, log, raced>>

\* mutex_unlock(&priv->mutex); the transaction function returns ret.
mutex_unlock(t) ==
    /\ pc[t] = "unlock"
    /\ mutex' = IF mutex = t THEN NoThread ELSE mutex
    /\ pc' = [pc EXCEPT ![t] = "run"]
    /\ UNCHANGED <<priv, irq, conv, hw, dev_image, buffer, last_ctrl_report_op, updated, snap, now,
                   nticks, call, stage, txn, ret, val, out, ncalls, ntxn, wake, slept,
                   got, sent, expect, log, raced>>

\* Time passes.  The clock is read by the delay step and by the freshness
\* test of a read callback, so time passing is observed only there.
Tick ==
    /\ nticks < MaxTicks
    /\ \E t \in Threads :
         \/ pc[t] \in {"delay_get", "delay_send"}
         \/ pc[t] = "run" /\ stage[t] = "entry" /\ call[t].fn \in {"aqc_read", "octo_read"}
    /\ now' = now + TickUs
    /\ nticks' = nticks + 1
    /\ UNCHANGED <<priv, irq, conv, hw, dev_image, buffer, mutex, last_ctrl_report_op, updated,
                   snap, pc, call, stage, txn, ret, val, out, ncalls, ntxn, wake, slept,
                   got, sent, expect, log, raced>>

\* ------------------------------------------------------------------------
\* Control transactions under concurrency
\* ------------------------------------------------------------------------
Call(fn, type, attr, channel, point, v) ==
    [fn |-> fn, type |-> type, attr |-> attr, channel |-> channel, point |-> point,
     val |-> v]
NoCall == Call("", "", "", 0, 0, 0)

\* Values written through pwmN and tempN_offset.
CtrlVals == {170}

\* The callbacks user space can reach on this device that run transactions.
CtrlCalls(p, h) ==
    IF p.driver = "aquacomputer_octo"
    THEN {Call("octo_write", "pwm", "pwm_input", ch, 0, v) :
              ch \in 0..(NumChannels - 1), v \in CtrlVals}
         \cup {Call("octo_read", "pwm", "pwm_input", 0, 0, 0)}
    ELSE {c \in {Call("aqc_write", "pwm", "pwm_input", ch, 0, v) :
                     ch \in 0..(NumChannels - 1), v \in CtrlVals}
                \cup {Call("aqc_write", "temp", "temp_offset", 0, 0, v * 10) :
                          v \in CtrlVals} :
              aqc_is_visible(p, h, c.type, c.attr, c.channel) = S_0644}
         \cup {c \in {Call("aqc_read", "pwm", "pwm_input", 0, 0, 0),
                      Call("aqc_read", "temp", "temp_offset", 0, 0, 0),
                      Call("aqc_read", "temp", "temp_input", 0, 0, 0)} :
                  /\ aqc_is_visible(p, h, c.type, c.attr, c.channel) # 0
                  /\ (c.attr = "temp_input" => p.status_report_id # 0)}

CtrlKinds == {"aquaero", "d5next", "farbwerk360", "octo", "quadro", "aquastreamxt",
              "poweradjust3", "highflow"}
CtrlProfiles == {aqc_probe(k) : k \in CtrlKinds} \cup {octo_probe}

InitThreads ==
    /\ pc = [t \in Threads |-> "idle"]
    /\ call = [t \in Threads |-> NoCall]
    /\ stage = [t \in Threads |-> "entry"]
    /\ txn = [t \in Threads |-> NoTxn]
    /\ ret = [t \in Threads |-> 0]
    /\ val = [t \in Threads |-> 0]
    /\ out = [t \in Threads |-> [ret |-> 0, val |-> NoVal]]
    /\ ncalls = [t \in Threads |-> 0]
    /\ ntxn = [t \in Threads |-> 0]
    /\ wake = [t \in Threads |-> 0]
    /\ slept = [t \in Threads |-> 0]
    /\ raced = [t \in Threads |-> FALSE]

\* No report has been handed to raw_event yet; no conversion has been made.
NoReport == [pc |-> "idle", id |-> 0, seed |-> 0, size |-> 0, ret |-> 0, temps |-> <<>>,
             held |-> FALSE, start |-> <<>>, new |-> <<>>]
NoConv == [done |-> FALSE, x |-> 0, pwm |-> 0, percent |-> 0, prev |-> 0, octo_pwm |-> 0,
           octo_percent |-> 0]

\* The control report a device holds when the driver binds to it.
SeedImages(p) == {Image(seed, p.buffer_size) : seed \in 0..MaxSeed}

\* The state once probe has returned on a device of one of the profiles P
\* and, if reported, a push device has sent its first sensor report.  probe
\* ran in the current jiffy or up to max_age jiffies before it; the device
\* holds one of Images(priv).
InitDevOn(P, reported, max_age, Images(_)) ==
    /\ priv \in P
    /\ LET push == priv.status_report_id = 0 /\ reported
           first == PushReport(priv, 0)
           hw0 == [received |-> FALSE, aquaero_hw_kind |-> "unknown"]
           j0 == (InitNow * HZ) \div USEC_PER_SEC
       IN /\ hw = IF push THEN aqc_raw_event_hw(priv, first, hw0) ELSE hw0
          /\ snap = IF push THEN raw_event_decode(priv, first, snap_kzalloc)
                    ELSE snap_kzalloc
          /\ \E age \in 0..max_age :
                 updated = IF push THEN j0
                           ELSE IF priv.driver = "d5next"
                                THEN j0 - age - STATUS_VALIDITY * HZ
                                ELSE j0 - age - STATUS_UPDATE_INTERVAL
    /\ dev_image \in Images(priv)
    /\ buffer = Zeros(priv.buffer_size)
    /\ mutex = NoThread
    /\ last_ctrl_report_op = 0
    /\ now = InitNow
    /\ nticks = 0
    /\ InitThreads
    /\ got = <<>>
    /\ sent = <<>>
    /\ expect = <<>>
    /\ log = [t \in Threads |-> <<>>]
    /\ irq = IF priv.status_report_id = 0 /\ reported
             THEN [NoReport EXCEPT !.id = STATUS_REPORT_ID, !.size = SensorReportLen,
                                   !.temps = ReportTemps(priv, PushReport(priv, 0))]
             ELSE NoReport

InitDev(P, reported, max_age) == InitDevOn(P, reported, max_age, SeedImages)

\* No duty value has been converted.
InitWith(P, reported, max_age) == InitDev(P, reported, max_age) /\ conv = NoConv

InitCtrl == InitWith(CtrlProfiles, TRUE, MaxProbeAge)

NextCtrl ==
    \/ \E t \in Threads : \E c \in CtrlCalls(priv, hw) : Enter(t, c)
    \/ \E t \in Threads : Run(t)
    \/ \E t \in Threads : mutex_lock(t)
    \/ \E t \in Threads : aqc_delay_ctrl_report(t)
    \/ \E t \in Threads : msleep(t)
    \/ \E t \in Threads : aqc_get_ctrl_data(t)
    \/ \E t \in Threads : aqc_set_buffer_vals_step(t)
    \/ \E t \in Threads : aqc_send_ctrl_data_checksum(t)
    \/ \E t \in Threads : aqc_send_ctrl_data_primary(t)
    \/ \E t \in Threads : aqc_send_ctrl_data_secondary(t)
    \/ \E t \in Threads : aqc_legacy_read(t)
    \/ \E t \in Threads : mutex_unlock(t)

\* Callbacks racing from NumThreads threads.
SpecCtrl == InitCtrl /\ [][NextCtrl]_vars

\* One thread issuing MaxSeqCalls callbacks one after the other, with time
\* passing in between.
NextTxn ==
    \/ \E c \in CtrlCalls(priv, hw) : EnterUpTo(1, c, MaxSeqCalls)
    \/ Run(1)
    \/ mutex_lock(1)
    \/ aqc_delay_ctrl_report(1)
    \/ msleep(1)
    \/ aqc_get_ctrl_data(1)
    \/ aqc_set_buffer_vals_step(1)
    \/ aqc_send_ctrl_data_checksum(1)
    \/ aqc_send_ctrl_data_primary(1)
    \/ aqc_send_ctrl_data_secondary(1)
    \/ aqc_legacy_read(1)
    \/ mutex_unlock(1)
    \/ Tick

SpecTxn == InitCtrl /\ [][NextTxn]_vars

\* ------------------------------------------------------------------------
\* Read accessors of the control report
\* ------------------------------------------------------------------------
\* The hwmon attributes and sysfs files whose read starts with a control GET.
AccCalls(p, h) ==
    IF p.driver = "aquacomputer_octo"
    THEN {Call("octo_read", "pwm", "pwm_input", ch, 0, 0) : ch \in 0..(NumChannels - 1)}
    ELSE {c \in {Call("aqc_read", a[1], a[2], ch, 0, 0) :
                     a \in {<<"temp", "temp_offset">>, <<"fan", "fan_min">>,
                            <<"fan", "fan_max">>, <<"pwm", "pwm_enable">>,
                            <<"pwm", "pwm_input">>, <<"pwm", "pwm_auto_channels_temp">>,
                            <<"pwm", "pwm_mode">>},
                     ch \in 0..(NumChannels - 1)}
                \cup {Call("aqc_read", "fan", "fan_pulses", p.num_fans, 0, 0)} :
              /\ aqc_is_visible(p, h, c.type, c.attr, c.channel) # 0
              /\ aqc_read_switch(p, c, snap_kzalloc).do = "txn"}
         \cup {c \in {Call(fn, "sysfs", "", ch, 0, 0) :
                         fn \in ShowFns, ch \in 0..(NumChannels - 1)} :
                  sysfs_mode(p, c.fn, c.channel) # 0}

AccKinds == {"aquaero", "d5next", "farbwerk360", "octo", "quadro", "aquastreamxt"}
AccProfiles == {aqc_probe(k) : k \in AccKinds} \cup {octo_probe}

InitAcc == InitWith(AccProfiles, TRUE, MaxProbeAge)

NextAcc ==
    \/ \E c \in AccCalls(priv, hw) : EnterUpTo(1, c, MaxSeqCalls)
    \/ Run(1)
    \/ mutex_lock(1)
    \/ aqc_delay_ctrl_report(1)
    \/ msleep(1)
    \/ aqc_get_ctrl_data(1)
    \/ aqc_legacy_read(1)
    \/ mutex_unlock(1)

SpecAcc == InitAcc /\ [][NextAcc]_vars

\* ------------------------------------------------------------------------
\* Telemetry of push devices
\* ------------------------------------------------------------------------
\* raw_event if it decoded a report whatever its id.
raw_event_on_any_id(R) ==
    /\ priv.status_report_id = 0
    /\ irq.pc = "idle"
    /\ \E r \in R : \E junk \in (IF r.size < SensorReportLen THEN JunkBytes ELSE {0}) :
         LET data == ReportData(priv, r, junk) IN
         /\ irq' = [irq EXCEPT !.id = r.id, !.size = r.size, !.ret = 0,
                                !.temps = ReportTemps(priv, data),
                                !.held = mutex # NoThread]
         /\ snap' = raw_event_decode(priv, data, snap)
         /\ hw' = aqc_raw_event_hw(priv, data, hw)
         /\ updated' = jiffies
    /\ UNCHANGED <<priv, conv, dev_image, buffer, mutex, last_ctrl_report_op, now, nticks,
                   pc, call, stage, txn, ret, val, out, ncalls, ntxn, wake, slept, got,
                   sent, expect, raced, log>>

\* raw_event if it took priv->mutex around its stores: it would wait while
\* a transaction holds the mutex.
raw_event_on_locked(R) ==
    /\ priv.status_report_id = 0
    /\ irq.pc = "idle"
    /\ mutex = NoThread
    /\ \E r \in R : \E junk \in (IF r.size < SensorReportLen THEN JunkBytes ELSE {0}) :
         LET data == ReportData(priv, r, junk) IN
         /\ irq' = [irq EXCEPT !.id = r.id, !.size = r.size, !.ret = 0,
                                !.temps = ReportTemps(priv, data),
                                !.held = mutex # NoThread]
         /\ IF r.id # STATUS_REPORT_ID
            THEN UNCHANGED <<snap, hw, updated>>
            ELSE /\ snap' = raw_event_decode(priv, data, snap)
                 /\ hw' = aqc_raw_event_hw(priv, data, hw)
                 /\ updated' = jiffies
    /\ UNCHANGED <<priv, conv, dev_image, buffer, mutex, last_ctrl_report_op, now, nticks,
                   pc, call, stage, txn, ret, val, out, ncalls, ntxn, wake, slept, got,
                   sent, expect, raced, log>>

\* The raw_event callback, given one of the reports R: a report with another
\* id is ignored, a sensor report is decoded into the cache, whatever its
\* size, and stamps priv->updated.  It takes no lock.
raw_event_on(R) ==
    /\ priv.status_report_id = 0
    /\ irq.pc = "idle"
    /\ \E r \in R : \E junk \in (IF r.size < SensorReportLen THEN JunkBytes ELSE {0}) :
         LET data == ReportData(priv, r, junk) IN
         /\ irq' = [irq EXCEPT !.id = r.id, !.size = r.size, !.ret = 0,
                                !.temps = ReportTemps(priv, data),
                                !.held = mutex # NoThread]
         /\ IF r.id # STATUS_REPORT_ID
            THEN UNCHANGED <<snap, hw, updated>>
            ELSE /\ snap' = raw_event_decode(priv, data, snap)
                 /\ hw' = aqc_raw_event_hw(priv, data, hw)
                 /\ updated' = jiffies
    /\ UNCHANGED <<priv, conv, dev_image, buffer, mutex, last_ctrl_report_op, now, nticks,
                   pc, call, stage, txn, ret, val, out, ncalls, ntxn, wake, slept, got,
                   sent, expect, raced, log>>

raw_event == raw_event_on(PlainReports)

\* The clock moves on by a second or by one jiffy.
ElapseSteps == {USEC_PER_SEC, USEC_PER_SEC \div HZ}
Elapse ==
    /\ nticks < MaxElapse
    /\ \E d \in ElapseSteps : now' = now + d
    /\ nticks' = nticks + 1
    /\ UNCHANGED <<priv, irq, conv, hw, dev_image, buffer, mutex, last_ctrl_report_op, updated,
                   snap, pc, call, stage, txn, ret, val, out, ncalls, ntxn, wake, slept,
                   got, sent, expect, raced, log>>

\* The sensor readings each driver offers.
TeleTypes == {<<"temp", "temp_input">>, <<"fan", "fan_input">>, <<"power", "power_input">>,
              <<"in", "in_input">>, <<"curr", "curr_input">>}
InfoCalls(fn, info) ==
    {Call(fn, a[1], a[2], ch, 0, 0) :
         a \in {b \in TeleTypes : b[1] \in DOMAIN info},
         ch \in 0..(NumChannels - 1)}
TeleCalls(p, h) ==
    CASE p.driver = "aquacomputer_octo" ->
           {c \in InfoCalls("octo_read", octo_info) : c.channel < octo_info[c.type]}
      [] p.driver = "d5next" ->
           {c \in InfoCalls("d5next_read", d5next_info) : c.channel < d5next_info[c.type]}
      [] p.driver = "aquacomputer_farbwerk360" ->
           {c \in InfoCalls("farbwerk360_read", farbwerk360_info) :
                c.channel < farbwerk360_info[c.type]}
      [] OTHER ->
           {c \in {Call("aqc_read", a[1], a[2], ch, 0, 0) :
                       a \in TeleTypes, ch \in 0..(NumChannels - 1)} :
                aqc_is_visible(p, h, c.type, c.attr, c.channel) # 0}

TeleProfiles ==
    {p \in {aqc_probe(k) : k \in Kinds} : p.status_report_id = 0}
        \cup {octo_probe, d5next_probe, farbwerk360_probe}

\* Probe has returned; no sensor report has arrived yet.
InitTele == InitWith(TeleProfiles, FALSE, 0)

NextTele ==
    \/ raw_event
    \/ Elapse
    \/ \E c \in TeleCalls(priv, hw) : EnterUpTo(1, c, MaxSeqCalls)
    \/ Run(1)

SpecTele == InitTele /\ [][NextTele]_vars

\* ------------------------------------------------------------------------
\* Decoding of sensor reports
\* ------------------------------------------------------------------------
\* A report that ends before the firmware version field.
ShortReportLen == 8
\* Raw temperatures a device may report: the not-available marker and -1.
RawTemps == {AQC_SENSOR_NA, 65535}

\* Reports of full size with a chosen raw temperature, a short report, and
\* a report under another id.
SenseReports ==
    {Rep(STATUS_REPORT_ID, 0, SensorReportLen, ch, raw) :
         ch \in 0..(NumChannels - 1), raw \in RawTemps \cup {NoRaw}}
    \cup {Rep(STATUS_REPORT_ID, 0, ShortReportLen, 0, NoRaw),
          Rep(STATUS_REPORT_ID + 1, 0, SensorReportLen, 0, NoRaw)}
SensePolls ==
    {Rep(0, 0, 0, ch, raw) : ch \in 0..(NumChannels - 1), raw \in RawTemps \cup {NoRaw}}

SenseProfiles ==
    {aqc_probe(k) : k \in Kinds} \cup {octo_probe, d5next_probe, farbwerk360_probe}
SenseCalls(p, h) == {c \in TeleCalls(p, h) : c.type \in {"temp", "fan"}}

InitSense == InitWith(SenseProfiles, FALSE, 0)

NextSense ==
    \/ raw_event_on(SenseReports)
    \/ Elapse
    \/ \E c \in SenseCalls(priv, hw) : Enter(1, c)
    \/ Run(1)
    \/ mutex_lock(1)
    \/ aqc_legacy_read_from(1, SensePolls)
    \/ mutex_unlock(1)

\* Push devices and polled devices of every driver, one reader.
SpecSense == InitSense /\ [][NextSense]_vars

\* ------------------------------------------------------------------------
\* The decoder store by store
\* ------------------------------------------------------------------------
\* raw_event writes the cache field by field and takes no lock, so a read
\* callback on another CPU can run between two of its stores.  The stores
\* are taken in three groups, in the order of the source: the device
\* information and the temperature loops, then every other reading, then
\* priv->updated.

\* How many temperature slots the loops at the top of the decoder fill.
LoopTemps(p) ==
    IF p.driver = "aquacomputer_d5next"
    THEN p.num_temp_sensors + p.num_virtual_temp_sensors
    ELSE NumTemps(p)

\* The cache once the decoder, started on cache s and bound to end with n,
\* has stored the device information and run its temperature loops.
raw_event_temps(p, s, n) ==
    [s EXCEPT !.serial_number = n.serial_number,
              !.firmware_version = n.firmware_version,
              !.power_cycles = IF p.driver = "d5next" THEN n.power_cycles ELSE @,
              !.temp_input = [i \in 1..40 |-> IF i <= LoopTemps(p) THEN n.temp_input[i]
                                             ELSE @[i]]]

\* raw_event from its entry to the end of its temperature loops.
raw_event_begin(R) ==
    /\ priv.status_report_id = 0
    /\ irq.pc = "idle"
    /\ \E r \in R :
         LET data == ReportData(priv, r, 0)
             n == raw_event_decode(priv, data, snap)
         IN IF r.id # STATUS_REPORT_ID
            THEN /\ irq' = [irq EXCEPT !.id = r.id, !.seed = r.seed, !.size = r.size,
                                        !.ret = 0, !.temps = ReportTemps(priv, data),
                                        !.held = mutex # NoThread]
                 /\ UNCHANGED snap
            ELSE /\ irq' = [irq EXCEPT !.id = r.id, !.seed = r.seed, !.size = r.size,
                                        !.ret = 0, !.temps = ReportTemps(priv, data),
                                        !.held = mutex # NoThread,
                                        !.pc = "sensors", !.start = snap, !.new = n]
                 /\ snap' = raw_event_temps(priv, snap, n)
    /\ UNCHANGED <<priv, conv, hw, updated, dev_image, buffer, mutex, last_ctrl_report_op, now,
                   nticks, pc, call, stage, txn, ret, val, out, ncalls, ntxn, wake, slept,
                   got, sent, expect, raced, log>>

\* raw_event from the fan loop to the end of the switch on the model.
raw_event_sensors ==
    /\ irq.pc = "sensors"
    /\ snap' = irq.new
    /\ hw' = aqc_raw_event_hw(priv, PushReport(priv, irq.seed), hw)
    /\ irq' = [irq EXCEPT !.pc = "stamp"]
    /\ UNCHANGED <<priv, conv, updated, dev_image, buffer, mutex, last_ctrl_report_op, now,
                   nticks, pc, call, stage, txn, ret, val, out, ncalls, ntxn, wake, slept,
                   got, sent, expect, raced, log>>

\* priv->updated = jiffies; return 0.
raw_event_stamp ==
    /\ irq.pc = "stamp"
    /\ updated' = jiffies
    /\ irq' = [irq EXCEPT !.pc = "idle"]
    /\ UNCHANGED <<priv, conv, hw, snap, dev_image, buffer, mutex, last_ctrl_report_op, now,
                   nticks, pc, call, stage, txn, ret, val, out, ncalls, ntxn, wake, slept,
                   got, sent, expect, raced, log>>

\* Two full-size sensor reports with different bytes, and one under
\* another id.
TearSeeds == {0, 1}
TearReports ==
    {Rep(STATUS_REPORT_ID, seed, SensorReportLen, 0, NoRaw) : seed \in TearSeeds}
    \cup {Rep(STATUS_REPORT_ID + 1, 0, SensorReportLen, 0, NoRaw)}

\* The device has sent its first report; reports keep coming.
InitTear == InitWith(TeleProfiles, TRUE, 0)

NextTear ==
    \/ raw_event_begin(TearReports)
    \/ raw_event_sensors
    \/ raw_event_stamp
    \/ Elapse
    \/ \E c \in SenseCalls(priv, hw) : Enter(1, c)
    \/ Run(1)

SpecTear == InitTear /\ [][NextTear]_vars

\* ------------------------------------------------------------------------
\* Polled devices
\* ------------------------------------------------------------------------
\* The models whose sensor report is fetched by aqc_legacy_read().
PollProfiles == {p \in {aqc_probe(k) : k \in Kinds} : p.status_report_id # 0}

\* Probe has returned, in this jiffy or the one before.
InitPoll == InitWith(PollProfiles, FALSE, MaxProbeAge)

NextPoll ==
    \/ Elapse
    \/ \E c \in TeleCalls(priv, hw) : EnterUpTo(1, c, MaxSeqCalls)
    \/ Run(1)
    \/ mutex_lock(1)
    \/ aqc_legacy_read_from(1, SensePolls)
    \/ mutex_unlock(1)

\* One reader makes telemetry reads one after the other while time passes.
SpecPoll == InitPoll /\ [][NextPoll]_vars

\* ------------------------------------------------------------------------
\* Sensor reports during control transactions
\* ------------------------------------------------------------------------
\* The push models that have a control report.
IrqProfiles == {p \in CtrlProfiles : p.status_report_id = 0}

InitIrq == InitWith(IrqProfiles, TRUE, 0)

NextIrq ==
    \/ \E c \in CtrlCalls(priv, hw) : Enter(1, c)
    \/ Run(1)
    \/ mutex_lock(1)
    \/ aqc_delay_ctrl_report(1)
    \/ msleep(1)
    \/ aqc_get_ctrl_data(1)
    \/ aqc_set_buffer_vals_step(1)
    \/ aqc_send_ctrl_data_checksum(1)
    \/ aqc_send_ctrl_data_primary(1)
    \/ aqc_send_ctrl_data_secondary(1)
    \/ mutex_unlock(1)
    \/ Tick
    \/ raw_event

\* One thread runs a control transaction while the device pushes reports.
SpecIrq == InitIrq /\ [][NextIrq]_vars

\* ------------------------------------------------------------------------
\* Duty-cycle conversions
\* ------------------------------------------------------------------------
\* The largest duty value of a control report, in hundredths of a percent.
MaxPercent == 10000

\* A fan's duty value x is read through pwmN, which converts it with
\* aqc_percent_to_pwm() (octo_percent_to_pwm() in aquacomputer_octo.c), and
\* the number read is written back through pwmN, which converts it with
\* aqc_pwm_to_percent() (octo_pwm_to_percent()).  prev is the conversion of
\* the duty value just below x.
aqc_convert ==
    /\ ~conv.done
    /\ LET x == conv.x IN
       conv' = [done |-> TRUE,
                x |-> x,
                pwm |-> aqc_percent_to_pwm(x),
                percent |-> aqc_pwm_to_percent(aqc_percent_to_pwm(x)),
                prev |-> aqc_percent_to_pwm(IF x = 0 THEN 0 ELSE x - 1),
                octo_pwm |-> octo_percent_to_pwm(x),
                octo_percent |-> octo_pwm_to_percent(octo_percent_to_pwm(x))]
    /\ UNCHANGED <<priv, irq, hw, dev_image, buffer, mutex, last_ctrl_report_op, updated,
                   snap, now, nticks, pc, call, stage, txn, ret, val, out, ncalls, ntxn,
                   wake, slept, got, sent, expect, raced, log>>

\* An Octo whose fan holds any duty value of the range.
InitPwm ==
    /\ InitDev({aqc_probe("octo")}, TRUE, 0)
    /\ \E x \in 0..MaxPercent : conv = [NoConv EXCEPT !.x = x]

NextPwm == aqc_convert

SpecPwm == InitPwm /\ [][NextPwm]_vars

\* ------------------------------------------------------------------------
\* Bit helpers
\* ------------------------------------------------------------------------
\* The values and bit positions the helpers are applied to: the byte that
\* holds the fan-curve flags, and its bit positions.
MaxBitVal == 255
MaxBitPos == 7

\* store_curve_start_boost() and store_curve_power_hold_min() change one
\* bit of the flags byte v with aqc_set_bit_at_pos(); the show functions
\* read it back with aqc_get_bit_at_pos().
aqc_bits ==
    /\ ~conv.done
    /\ LET v == conv.v
           p == conv.p
       IN conv' = [done |-> TRUE, v |-> v, p |-> p, bit |-> conv.bit,
                   set |-> aqc_set_bit_at_pos(v, p, conv.bit),
                   got |-> aqc_get_bit_at_pos(aqc_set_bit_at_pos(v, p, conv.bit), p),
                   set_clear |-> aqc_set_bit_at_pos(aqc_set_bit_at_pos(v, p, 1), p, 0)]
    /\ UNCHANGED <<priv, irq, hw, dev_image, buffer, mutex, last_ctrl_report_op, updated,
                   snap, now, nticks, pc, call, stage, txn, ret, val, out, ncalls, ntxn,
                   wake, slept, got, sent, expect, raced, log>>

\* A D5 Next whose flags byte, bit position and bit are any of the range.
InitBits ==
    /\ InitDev({aqc_probe("d5next")}, TRUE, 0)
    /\ \E v \in 0..MaxBitVal : \E p \in 0..MaxBitPos : \E bit \in {0, 1} :
          conv = [done |-> FALSE, v |-> v, p |-> p, bit |-> bit, set |-> 0, got |-> 0,
                  set_clear |-> 0]

NextBits == aqc_bits

SpecBits == InitBits /\ [][NextBits]_vars

\* ------------------------------------------------------------------------
\* Aquastream XT pump speed conversions
\* ------------------------------------------------------------------------
\* Either a duty cycle is converted for a write of pwm1, or the raw value of
\* the control report is converted for a read of pwm1.
MaxRawCtrl == 65535

aqc_aquastreamxt ==
    /\ ~conv.done
    /\ conv' =
         IF conv.op = "write"
         THEN [conv EXCEPT !.done = TRUE, !.out = aqc_aquastreamxt_pwm_to_rpm(conv.x)]
         ELSE [conv EXCEPT !.done = TRUE,
                           !.rpm = aqc_aquastreamxt_convert_pump_rpm(conv.x),
                           !.out = aqc_read_convert(priv,
                                                    Call("aqc_read", "pwm", "pwm_input",
                                                         0, 0, 0),
                                                    conv.x)]
    /\ UNCHANGED <<priv, irq, hw, dev_image, buffer, mutex, last_ctrl_report_op, updated,
                   snap, now, nticks, pc, call, stage, txn, ret, val, out, ncalls, ntxn,
                   wake, slept, got, sent, expect, raced, log>>

InitXt ==
    /\ InitDev({aqc_probe("aquastreamxt")}, FALSE, 0)
    /\ \/ \E x \in 0..255 :
            conv = [done |-> FALSE, op |-> "write", x |-> x, rpm |-> 0, out |-> 0]
       \/ \E x \in 0..MaxRawCtrl :
            conv = [done |-> FALSE, op |-> "read", x |-> u16(x), rpm |-> 0, out |-> 0]

NextXt == aqc_aquastreamxt

SpecXt == InitXt /\ [][NextXt]_vars

\* ------------------------------------------------------------------------
\* Registration of the hwmon attributes
\* ------------------------------------------------------------------------
\* The hwmon core asks aqc_is_visible() about one channel and attribute of
\* aqc_info.  On the Aquaero the pwm_mode query first waits for the first
\* sensor report, for STATUS_UPDATE_INTERVAL jiffies at most.
IsVisibleWaits(p, type, attr, channel) ==
    /\ type = "pwm" /\ attr = "pwm_mode"
    /\ p.kind = "aquaero"
    /\ p.fan_ctrl_offsets # <<>> /\ channel < p.num_fans

\* aqc_is_visible() is entered: it answers at once, or waits.
aqc_is_visible_call ==
    /\ conv.pc = "idle"
    /\ conv' = IF IsVisibleWaits(priv, conv.type, conv.attr, conv.channel)
               THEN [conv EXCEPT !.pc = "wait", !.start = jiffies]
               ELSE [conv EXCEPT !.pc = "done", !.done = TRUE, !.start = jiffies,
                                 !.end = jiffies, !.hw = hw,
                                 !.mode = aqc_is_visible(priv, hw, conv.type, conv.attr,
                                                         conv.channel)]
    /\ UNCHANGED <<priv, irq, hw, dev_image, buffer, mutex, last_ctrl_report_op, updated,
                   snap, now, nticks, pc, call, stage, txn, ret, val, out, ncalls, ntxn,
                   wake, slept, got, sent, expect, raced, log>>

\* wait_for_completion_timeout() returns: the completion is done, or the
\* timeout has run out.
wait_for_completion_timeout ==
    /\ conv.pc = "wait"
    /\ hw.received \/ jiffies >= conv.start + STATUS_UPDATE_INTERVAL
    /\ conv' = [conv EXCEPT !.pc = "done", !.done = TRUE, !.end = jiffies, !.hw = hw,
                            !.mode = aqc_is_visible(priv, hw, conv.type, conv.attr,
                                                    conv.channel)]
    /\ UNCHANGED <<priv, irq, hw, dev_image, buffer, mutex, last_ctrl_report_op, updated,
                   snap, now, nticks, pc, call, stage, txn, ret, val, out, ncalls, ntxn,
                   wake, slept, got, sent, expect, raced, log>>

\* The clock moves on under a query that sleeps on the completion; its
\* timer wakes it when the timeout runs out.
schedule_timeout ==
    /\ conv.pc = "wait"
    /\ ~hw.received
    /\ Elapse
    /\ (now' * HZ) \div USEC_PER_SEC <= conv.start + STATUS_UPDATE_INTERVAL

\* The hardware versions an Aquaero may report.
AquaeroVersions == {AQUAERO_5_HW_VERSION, AQUAERO_6_HW_VERSION, 0}

\* aqc_raw_event() on a sensor report of an Aquaero, before the query has
\* been answered.
raw_event_aquaero ==
    /\ priv.kind = "aquaero"
    /\ conv.pc # "done"
    /\ irq.pc = "idle"
    /\ \E ver \in AquaeroVersions :
         LET data == put_unaligned_be16(ver, SensorReport(0, SensorReportLen),
                                        AQUAERO_HARDWARE_VERSION)
         IN /\ irq' = [irq EXCEPT !.id = STATUS_REPORT_ID, !.size = SensorReportLen,
                                   !.ret = 0, !.temps = ReportTemps(priv, data),
                                   !.held = mutex # NoThread]
            /\ snap' = raw_event_decode(priv, data, snap)
            /\ hw' = aqc_raw_event_hw(priv, data, hw)
            /\ updated' = jiffies
    /\ UNCHANGED <<priv, conv, dev_image, buffer, mutex, last_ctrl_report_op, now, nticks,
                   pc, call, stage, txn, ret, val, out, ncalls, ntxn, wake, slept, got,
                   sent, expect, raced, log>>

VisProfiles == {aqc_probe(k) : k \in Kinds}

InitVis ==
    /\ InitDev(VisProfiles, FALSE, 0)
    /\ \E type \in DOMAIN aqc_info_attrs :
         \E attr \in aqc_info_attrs[type] :
           \E ch \in 0..(MaxInfoChannels - 1) :
             conv = [done |-> FALSE, pc |-> "idle", type |-> type, attr |-> attr,
                     channel |-> ch, mode |-> 0, start |-> 0, end |-> 0, hw |-> hw]

NextVis ==
    \/ aqc_is_visible_call
    \/ wait_for_completion_timeout
    \/ schedule_timeout
    \/ raw_event_aquaero

SpecVis == InitVis /\ [][NextVis]_vars

\* ------------------------------------------------------------------------
\* Two Aquaeros attached
\* ------------------------------------------------------------------------
\* aquaero_sensor_report_received is one object of the module: hw.received
\* is its state, while hw.aquaero_hw_kind, snap and irq belong to the device
\* whose attributes are being registered.  This is aqc_raw_event() called
\* for a second Aquaero: it decodes into that device's own priv and
\* completes the same completion.
raw_event_other_aquaero ==
    /\ priv.kind = "aquaero"
    /\ conv.pc # "done"
    /\ hw' = [hw EXCEPT !.received = TRUE]
    /\ UNCHANGED <<priv, irq, conv, dev_image, buffer, mutex, last_ctrl_report_op, updated,
                   snap, now, nticks, pc, call, stage, txn, ret, val, out, ncalls, ntxn,
                   wake, slept, got, sent, expect, raced, log>>

\* The pwm attributes of the first device are being registered.
InitTwo ==
    /\ InitDev({aqc_probe("aquaero")}, FALSE, 0)
    /\ \E attr \in aqc_info_attrs["pwm"] :
         \E ch \in 0..(MaxInfoChannels - 1) :
           conv = [done |-> FALSE, pc |-> "idle", type |-> "pwm", attr |-> attr,
                   channel |-> ch, mode |-> 0, start |-> 0, end |-> 0, hw |-> hw]

NextTwo ==
    \/ aqc_is_visible_call
    \/ wait_for_completion_timeout
    \/ schedule_timeout
    \/ raw_event_aquaero
    \/ raw_event_other_aquaero

SpecTwo == InitTwo /\ [][NextTwo]_vars

\* ------------------------------------------------------------------------
\* Writes of user space
\* ------------------------------------------------------------------------
\* Numbers written to the files that take a duty cycle or a flag: the ends
\* of 0..255, of 0..2, and their neighbours.
StoreVals == {-1, 0, 1, 2, 3, 255, 256}

\* Offsets written to tempN_offset, in millidegrees: the ends of the range
\* of 15 degrees either way and values beyond them.
OffsetVals == {-20000, -15000, 15000, 15010}

\* The files of the curve groups, pwmN and tempN_offset, as user space can
\* open them.
StoreCalls(p, h) ==
    {c \in {Call(fn, "sysfs", "", ch, pt, v) :
                fn \in StoreFns \cup ShowFns, ch \in 0..(NumChannels - 1), pt \in {0},
                v \in StoreVals} :
        /\ sysfs_mode(p, c.fn, c.channel) # 0
        /\ (c.fn \in ShowFns => c.val = 0)}
    \cup {c \in {Call("aqc_write", "pwm", "pwm_input", ch, 0, v) :
                    ch \in 0..(NumChannels - 1), v \in StoreVals}
               \cup {Call("aqc_write", "temp", "temp_offset", 0, 0, v) :
                         v \in OffsetVals} :
             aqc_is_visible(p, h, c.type, c.attr, c.channel) = S_0644}

StoreKinds == {"d5next", "octo", "quadro"}
StoreProfiles == {aqc_probe(k) : k \in StoreKinds}

InitStore == InitWith(StoreProfiles, TRUE, 0)

NextStore ==
    \/ \E c \in StoreCalls(priv, hw) : EnterUpTo(1, c, MaxCalls)
    \/ Run(1)
    \/ mutex_lock(1)
    \/ aqc_delay_ctrl_report(1)
    \/ msleep(1)
    \/ aqc_get_ctrl_data(1)
    \/ aqc_set_buffer_vals_step(1)
    \/ aqc_send_ctrl_data_checksum(1)
    \/ aqc_send_ctrl_data_primary(1)
    \/ aqc_send_ctrl_data_secondary(1)
    \/ mutex_unlock(1)

SpecStore == InitStore /\ [][NextStore]_vars

\* ------------------------------------------------------------------------
\* pwmN_enable written, then read
\* ------------------------------------------------------------------------
\* The modes hwmon may hand to a write of pwmN_enable: 0, the three modes of
\* the device plus one, and "follow fan 1 or 2".
EnableVals == 0..5

EnableCalls(p, h) ==
    {c \in {Call("aqc_write", "pwm", "pwm_enable", ch, 0, v) :
                ch \in 0..(NumChannels - 1), v \in EnableVals}
           \cup {Call("aqc_read", "pwm", "pwm_enable", ch, 0, 0) :
                     ch \in 0..(NumChannels - 1)} :
        aqc_is_visible(p, h, c.type, c.attr, c.channel) = S_0644}

InitEnable == InitWith(StoreProfiles, TRUE, 0)

NextEnable ==
    \/ \E c \in EnableCalls(priv, hw) : EnterUpTo(1, c, MaxSeqCalls)
    \/ Run(1)
    \/ mutex_lock(1)
    \/ aqc_delay_ctrl_report(1)
    \/ msleep(1)
    \/ aqc_get_ctrl_data(1)
    \/ aqc_set_buffer_vals_step(1)
    \/ aqc_send_ctrl_data_checksum(1)
    \/ aqc_send_ctrl_data_primary(1)
    \/ aqc_send_ctrl_data_secondary(1)
    \/ mutex_unlock(1)

SpecEnable == InitEnable /\ [][NextEnable]_vars

\* ------------------------------------------------------------------------
\* Readings of the High Flow Next
\* ------------------------------------------------------------------------
\* Reports with the external temperature sensor present or absent, and
\* reads of every sensor channel in between.
InitNoData == InitWith({aqc_probe("highflownext")}, FALSE, 0)

NextNoData ==
    \/ raw_event_on(SenseReports)
    \/ \E c \in TeleCalls(priv, hw) : EnterUpTo(1, c, MaxSeqCalls)
    \/ Run(1)

SpecNoData == InitNoData /\ [][NextNoData]_vars

\* ------------------------------------------------------------------------
\* Fan records
\* ------------------------------------------------------------------------
\* Raw values of the fields of a fan record: an everyday voltage (12.00 V),
\* the ends of the 16-bit range, and the values on either side of 65535 / 10.
FanRaws == {0, 1200, 6553, 6554, 65535}

\* Where the record of the first fan keeps a field.
FanField(p, field) ==
    IF p.driver = "aquacomputer_octo"
    THEN octo_drv_sensor_fan_offsets[1]
         + (CASE field = "speed" -> OCTO_DRV_FAN_SPEED_OFFSET
              [] field = "power" -> OCTO_DRV_FAN_POWER_OFFSET
              [] field = "voltage" -> OCTO_DRV_FAN_VOLTAGE_OFFSET
              [] OTHER -> OCTO_DRV_FAN_CURRENT_OFFSET)
    ELSE p.fan_sensor_offsets[1] + p.fan_structure[field]

\* A sensor report whose first fan record holds raw in each of its fields.
FanReport(p, raw) ==
    LET r0 == PushReport(p, 0)
        r1 == put_unaligned_be16(raw, r0, FanField(p, "speed"))
        r2 == put_unaligned_be16(raw, r1, FanField(p, "power"))
        r3 == put_unaligned_be16(raw, r2, FanField(p, "voltage"))
    IN put_unaligned_be16(raw, r3, FanField(p, "curr"))

\* The raw_event callback on such a report; conv.x keeps the raw value the
\* report carried.
raw_event_fan ==
    /\ irq.pc = "idle"
    /\ \E raw \in FanRaws :
         LET data == FanReport(priv, raw) IN
         /\ irq' = [irq EXCEPT !.id = STATUS_REPORT_ID, !.size = SensorReportLen,
                                !.ret = 0, !.temps = ReportTemps(priv, data),
                                !.held = mutex # NoThread]
         /\ snap' = raw_event_decode(priv, data, snap)
         /\ hw' = aqc_raw_event_hw(priv, data, hw)
         /\ updated' = jiffies
         /\ conv' = [NoConv EXCEPT !.done = TRUE, !.x = raw]
    /\ UNCHANGED <<priv, dev_image, buffer, mutex, last_ctrl_report_op, now, nticks,
                   pc, call, stage, txn, ret, val, out, ncalls, ntxn, wake, slept, got,
                   sent, expect, raced, log>>

FanKinds == {"aquaero", "d5next", "octo", "quadro", "aquastreamult"}
FanProfiles == {aqc_probe(k) : k \in FanKinds} \cup {octo_probe}
FanCalls(p, h) == {c \in TeleCalls(p, h) : c.type # "temp" /\ c.channel = 0}

InitFan == InitWith(FanProfiles, FALSE, 0)

NextFan ==
    \/ raw_event_fan
    \/ \E c \in FanCalls(priv, hw) : EnterUpTo(1, c, MaxSeqCalls)
    \/ Run(1)

SpecFan == InitFan /\ [][NextFan]_vars

\* ------------------------------------------------------------------------
\* The flags of a fan curve written from two threads
\* ------------------------------------------------------------------------
\* The values of a flag written to curveN_start_boost and
\* curveN_power_hold_min.
BoostVals == {0, 1}

\* The two flag files of the first fan, one per writer: both flags live in
\* the byte at fan_curve_hold_start_offsets[0].
BoostCalls(p, t) ==
    {c \in {Call(fn, "sysfs", "", 0, 0, v) :
                fn \in (IF t = 1 THEN {"store_curve_start_boost"}
                        ELSE {"store_curve_power_hold_min"}),
                v \in BoostVals} :
        sysfs_mode(p, c.fn, c.channel) # 0}

BoostKinds == {"octo", "quadro"}
BoostProfiles == {aqc_probe(k) : k \in BoostKinds}

InitBoost == InitWith(BoostProfiles, TRUE, 0)

NextBoost ==
    \/ \E t \in Threads : \E c \in BoostCalls(priv, t) : Enter(t, c)
    \/ \E t \in Threads : Run(t)
    \/ \E t \in Threads : mutex_lock(t)
    \/ \E t \in Threads : aqc_delay_ctrl_report(t)
    \/ \E t \in Threads : msleep(t)
    \/ \E t \in Threads : aqc_get_ctrl_data(t)
    \/ \E t \in Threads : aqc_set_buffer_vals_step(t)
    \/ \E t \in Threads : aqc_send_ctrl_data_checksum(t)
    \/ \E t \in Threads : aqc_send_ctrl_data_primary(t)
    \/ \E t \in Threads : aqc_send_ctrl_data_secondary(t)
    \/ \E t \in Threads : mutex_unlock(t)

SpecBoost == InitBoost /\ [][NextBoost]_vars

\* ------------------------------------------------------------------------
\* The flags of a fan curve written one after the other
\* ------------------------------------------------------------------------
\* Numbers written to the two flag files: the two values of a flag, 2, the
\* largest the store functions let through, and 3, the first they refuse.
FlagVals == {0, 1, 2, 3}

FlagCalls(p) ==
    {c \in {Call(fn, "sysfs", "", 0, 0, v) : fn \in StoreBitFns, v \in FlagVals} :
        sysfs_mode(p, c.fn, c.channel) # 0}

InitFlags == InitWith(BoostProfiles, TRUE, 0)

NextFlags ==
    \/ \E c \in FlagCalls(priv) : EnterUpTo(1, c, MaxSeqCalls)
    \/ Run(1)
    \/ mutex_lock(1)
    \/ aqc_delay_ctrl_report(1)
    \/ msleep(1)
    \/ aqc_get_ctrl_data(1)
    \/ aqc_set_buffer_vals_step(1)
    \/ aqc_send_ctrl_data_checksum(1)
    \/ aqc_send_ctrl_data_primary(1)
    \/ aqc_send_ctrl_data_secondary(1)
    \/ mutex_unlock(1)

SpecFlags == InitFlags /\ [][NextFlags]_vars

\* ------------------------------------------------------------------------
\* Fans that follow other fans
\* ------------------------------------------------------------------------
\* Fans whose pwmN_enable is written.
NumFollowFans == 3

\* Written to pwmN_enable: 1 (manual), 4..6 (follow fan 1..3), 9 (follow fan
\* 6, which an Octo has and a Quadro has not) and 13 (a fan neither has).
FollowVals == {1, 4, 5, 6, 9, 13}

FollowCalls(p, h) ==
    {c \in {Call("aqc_write", "pwm", "pwm_enable", ch, 0, v) :
                ch \in 0..(NumFollowFans - 1), v \in FollowVals} :
        aqc_is_visible(p, h, c.type, c.attr, c.channel) = S_0644}

\* A control report in which every fan is in manual mode (mode byte 0).
ManualImages(p) ==
    {[i \in 0..(p.buffer_size - 1) |->
         IF \E ch \in 1..p.num_fans : p.fan_ctrl_offsets[ch] = i THEN 0
         ELSE Image(0, p.buffer_size)[i]]}

InitFollow == InitDevOn(BoostProfiles, TRUE, 0, ManualImages) /\ conv = NoConv

NextFollow ==
    \/ \E c \in FollowCalls(priv, hw) : EnterUpTo(1, c, MaxSeqCalls)
    \/ Run(1)
    \/ mutex_lock(1)
    \/ aqc_delay_ctrl_report(1)
    \/ msleep(1)
    \/ aqc_get_ctrl_data(1)
    \/ aqc_set_buffer_vals_step(1)
    \/ aqc_send_ctrl_data_checksum(1)
    \/ aqc_send_ctrl_data_primary(1)
    \/ aqc_send_ctrl_data_secondary(1)
    \/ mutex_unlock(1)

SpecFollow == InitFollow /\ [][NextFollow]_vars

\* ------------------------------------------------------------------------
\* The pwm write of the Aquaero
\* ------------------------------------------------------------------------
\* Duty cycles written to pwmN: off, half and full.
AquaeroPwmVals == {0, 128, 255}

\* Writes of pwmN, and aqc_set_ctrl_vals() handed the same four fields with
\* one type out of range.
AquaeroCalls(p, h) ==
    {c \in {Call("aqc_write", "pwm", "pwm_input", ch, 0, v) :
                ch \in 0..(NumChannels - 1), v \in AquaeroPwmVals} :
        aqc_is_visible(p, h, c.type, c.attr, c.channel) = S_0644}
    \cup {Call("aqc_set_ctrl_vals", "pwm", "pwm_input", 0, k, 128) : k \in 1..4}

InitAquaero == InitWith({aqc_probe("aquaero")}, TRUE, 0)

NextAquaero ==
    \/ \E c \in AquaeroCalls(priv, hw) : EnterUpTo(1, c, MaxSeqCalls)
    \/ Run(1)
    \/ mutex_lock(1)
    \/ aqc_delay_ctrl_report(1)
    \/ msleep(1)
    \/ aqc_get_ctrl_data(1)
    \/ aqc_set_buffer_vals_step(1)
    \/ aqc_send_ctrl_data_primary(1)
    \/ aqc_send_ctrl_data_secondary(1)
    \/ mutex_unlock(1)

SpecAquaero == InitAquaero /\ [][NextAquaero]_vars

\* ------------------------------------------------------------------------
\* Every file of every product, opened once
\* ------------------------------------------------------------------------
\* The arrays of struct aqc_data the decoders store into, and their lengths.
aqc_data_arrays ==
    [temp_input |-> 40, speed_input |-> 20, speed_input_min |-> 20,
     speed_input_target |-> 1, speed_input_max |-> 20, power_input |-> 8,
     voltage_input |-> 8, current_input |-> 8]
NoStores == [a \in DOMAIN aqc_data_arrays |-> {}]

\* The indices at which aqc_raw_event() stores into each array: the loops
\* over the counts of the profile, then the switch on priv->kind.
aqc_raw_event_stores(p) ==
    LET nt == p.num_temp_sensors
        nv == p.num_virtual_temp_sensors
        nf == p.num_fans
        nfl == p.num_flow_sensors
        loops ==
            [NoStores EXCEPT
               !.temp_input = 0..(nt + nv - 1),
               !.speed_input = 0..(nf + nfl - 1),
               !.power_input = 0..(nf - 1),
               !.voltage_input = 0..(nf - 1),
               !.current_input = 0..(nf - 1)]
    IN
    CASE p.kind = "aquaero" ->
           [loops EXCEPT
              !.speed_input = @ \cup (nf + nfl)..(nf + nfl + p.num_aquabus_flow_sensors - 1),
              !.temp_input =
                  @ \cup (nt + nv)..(nt + nv + p.num_calc_virt_temp_sensors
                                     + p.num_aquabus_temp_sensors - 1)]
      [] p.kind = "aquastreamult" ->
           [loops EXCEPT
              !.speed_input = @ \cup {1, 2, 3}, !.power_input = @ \cup {1},
              !.voltage_input = @ \cup {1}, !.current_input = @ \cup {1}]
      [] p.kind = "d5next" -> [loops EXCEPT !.voltage_input = @ \cup {2, 3}]
      [] p.kind = "highflownext" ->
           [loops EXCEPT
              !.power_input = @ \cup {0}, !.voltage_input = @ \cup {0, 1},
              !.speed_input = @ \cup {1, 2}]
      [] p.kind = "leakshield" ->
           [loops EXCEPT
              !.speed_input = @ \cup {0, 1, 2, 3, 4}, !.speed_input_min = {0},
              !.speed_input_target = {0}, !.speed_input_max = {0},
              !.temp_input = @ \cup {1}]
      [] OTHER -> loops

\* The indices at which aqc_legacy_read() stores.
aqc_legacy_read_stores(p) ==
    LET loop == [NoStores EXCEPT !.temp_input = 0..(p.num_temp_sensors - 1)] IN
    IF p.kind = "aquastreamxt"
    THEN [loop EXCEPT !.speed_input = {0, 1}, !.current_input = {0},
                      !.voltage_input = {0, 1}]
    ELSE loop

\* The attributes aqc_info declares for a channel; the hwmon core asks
\* aqc_is_visible() about these and no others.
aqc_info_has(type, attr, channel) ==
    CASE type = "temp" ->
           \/ attr \in {"temp_input", "temp_label"} /\ channel < 40
           \/ attr = "temp_offset" /\ channel < 8
      [] type = "fan" ->
           \/ attr \in {"fan_input", "fan_label"} /\ channel < 20
           \/ attr \in {"fan_min", "fan_max"} /\ channel < 4
           \/ attr = "fan_target" /\ channel = 0
           \/ attr = "fan_pulses" /\ channel = 4
      [] type = "pwm" ->
           \/ attr \in {"pwm_input", "pwm_enable", "pwm_auto_channels_temp"} /\ channel < 8
           \/ attr = "pwm_mode" /\ channel < 4
      [] type = "power" -> attr \in {"power_input", "power_label"} /\ channel < 8
      [] type = "in" -> attr \in {"in_input", "in_label"} /\ channel < 8
      [] type = "curr" -> attr \in {"curr_input", "curr_label"} /\ channel < 8
      [] OTHER -> FALSE

InfoTypes == {"temp", "fan", "pwm", "power", "in", "curr"}
InfoAttrs(type) ==
    IF type = "temp" THEN {"temp_input", "temp_label", "temp_offset"}
    ELSE aqc_info_attrs[type]
LabelAttrs == {"temp_label", "fan_label", "power_label", "in_label", "curr_label"}
CurvePointFns == {"show_auto_temp", "show_auto_pwm", "store_auto_temp", "store_auto_pwm"}

\* The values written to a file of the hwmon device.
ProfileVals(attr) ==
    CASE attr = "pwm_enable" -> 0..(OCTO_NUM_FANS + 3)
      [] attr = "pwm_auto_channels_temp" -> {1, 8}
      [] attr = "pwm_mode" -> {0, 1}
      [] OTHER -> {100}
\* What the memory past the end of a label table may hold: no string of the
\* table, or its first.
StrayLabels == {-1, 0}

\* The files the hwmon core created for the device.
ProfileFiles(p, h) ==
    UNION {{f \in [type : {type}, attr : InfoAttrs(type), channel : 0..39] :
              /\ aqc_info_has(f.type, f.attr, f.channel)
              /\ aqc_is_visible(p, h, f.type, f.attr, f.channel) # 0} :
             type \in InfoTypes}

\* Every file the hwmon core and sysfs created for the device, read and,
\* where its mode allows, written; the curve files at every point.
ProfileCalls(p, h) ==
    LET files == ProfileFiles(p, h) IN
    {Call("aqc_read_string", f.type, f.attr, f.channel, 0, s) :
         f \in {g \in files : g.attr \in LabelAttrs}, s \in StrayLabels}
    \cup {Call("aqc_read", f.type, f.attr, f.channel, 0, 0) :
              f \in {g \in files : g.attr \notin LabelAttrs}}
    \cup UNION {{Call("aqc_write", f.type, f.attr, f.channel, 0, v) :
                     v \in ProfileVals(f.attr)} :
                  f \in {g \in files :
                           aqc_is_visible(p, h, g.type, g.attr, g.channel) = S_0644}}
    \cup UNION {{Call(fn, "sysfs", "", ch, pt, IF fn \in ShowFns THEN 0 ELSE 1) :
                     pt \in IF sysfs_mode(p, fn, ch) = 0 THEN {}
                            ELSE IF fn \in CurvePointFns
                            THEN 0..(AQC_FAN_CTRL_CURVE_NUM_POINTS - 1) ELSE {0}} :
                  fn \in StoreFns \cup ShowFns, ch \in 0..(OCTO_NUM_FANS - 1)}

\* Probe has returned; no sensor report has arrived yet, and a polled device
\* was last polled up to ProfileAges jiffies before its values went stale.
ProfileAges == 1
InitProfile == InitWith(VisProfiles, FALSE, ProfileAges)

NextProfile ==
    \/ ncalls[1] = 0 /\ raw_event
    \/ /\ pc[1] = "idle" /\ ncalls[1] < MaxCalls
       /\ \E c \in ProfileCalls(priv, hw) : EnterUpTo(1, c, MaxCalls)
    \/ Run(1)
    \/ mutex_lock(1)
    \/ aqc_delay_ctrl_report(1)
    \/ msleep(1)
    \/ aqc_get_ctrl_data(1)
    \/ aqc_set_buffer_vals_step(1)
    \/ aqc_send_ctrl_data_checksum(1)
    \/ aqc_send_ctrl_data_primary(1)
    \/ aqc_send_ctrl_data_secondary(1)
    \/ aqc_legacy_read(1)
    \/ mutex_unlock(1)

SpecProfile == InitProfile /\ [][NextProfile]_vars

\* ------------------------------------------------------------------------
\* pwmN written, then read
\* ------------------------------------------------------------------------
\* The products that keep the duty cycle of a fan in hundredths of a percent.
RoundKinds == {"aquaero", "d5next", "octo", "quadro"}
RoundProfiles == {aqc_probe(k) : k \in RoundKinds}

\* Thread 1 writes pwm1 with any value hwmon can hand over; thread 2 reads
\* pwm1 once that write has returned.
RoundWrites == {Call("aqc_write", "pwm", "pwm_input", 0, 0, v) : v \in 0..255}
RoundRead == Call("aqc_read", "pwm", "pwm_input", 0, 0, 0)

InitRound == InitWith(RoundProfiles, TRUE, 0)

NextRound ==
    \/ \E c \in RoundWrites : Enter(1, c)
    \/ pc[1] = "idle" /\ ncalls[1] = MaxCalls /\ Enter(2, RoundRead)
    \/ \E t \in Threads :
         \/ Run(t)
         \/ mutex_lock(t)
         \/ aqc_delay_ctrl_report(t)
         \/ msleep(t)
         \/ aqc_get_ctrl_data(t)
         \/ aqc_set_buffer_vals_step(t)
         \/ aqc_send_ctrl_data_checksum(t)
         \/ aqc_send_ctrl_data_primary(t)
         \/ aqc_send_ctrl_data_secondary(t)
         \/ mutex_unlock(t)

SpecRound == InitRound /\ [][NextRound]_vars

\* ------------------------------------------------------------------------
\* Two threads at the mutex
\* ------------------------------------------------------------------------
\* A polled device, and a push device that spaces its control requests out;
\* neither has a checksum in its control report.
MutexKinds == {"aquastreamxt", "aquaero"}
MutexProfiles == {aqc_probe(k) : k \in MutexKinds}

\* One call of each function that takes priv->mutex: aqc_get_ctrl_val (a
\* read of pwm1), aqc_set_ctrl_vals (a write of pwm1, and a call with a
\* type its switch does not know) and aqc_legacy_read (a read of temp1 on a
\* polled device whose values are stale).
MutexCalls(p, h) ==
    {Call("aqc_read", "pwm", "pwm_input", 0, 0, 0),
     Call("aqc_write", "pwm", "pwm_input", 0, 0, 128),
     Call("aqc_set_ctrl_vals", "pwm", "pwm_input", 0, 1, 128)}
    \cup {c \in {Call("aqc_read", "temp", "temp_input", 0, 0, 0)} : p.status_report_id # 0}

InitMutex == InitWith(MutexProfiles, TRUE, MaxProbeAge)

\* What thread t does once it is inside a callback; every transport request
\* returns, with the report or with an error.
ThreadStep(t) ==
    \/ Run(t)
    \/ mutex_lock(t)
    \/ aqc_delay_ctrl_report(t)
    \/ msleep(t)
    \/ aqc_get_ctrl_data(t)
    \/ aqc_set_buffer_vals_step(t)
    \/ aqc_send_ctrl_data_primary(t)
    \/ aqc_send_ctrl_data_secondary(t)
    \/ aqc_legacy_read(t)
    \/ mutex_unlock(t)

NextMutex ==
    \/ \E t \in Threads : \E c \in MutexCalls(priv, hw) : Enter(t, c)
    \/ \E t \in Threads : ThreadStep(t)

SpecMutex == InitMutex /\ [][NextMutex]_vars

\* A thread inside a callback is scheduled again, its transport requests
\* return and its sleeps end; user space need not call at all.
FairMutex == \A t \in Threads : WF_vars(ThreadStep(t))
SpecMutexFair == SpecMutex /\ FairMutex

\* ------------------------------------------------------------------------
\* Properties of the control transaction
\* ------------------------------------------------------------------------
\* Between mutex_lock and mutex_unlock of a transaction function.
InTxn(t) ==
    pc[t] \in {"delay_get", "sleep_get", "get", "patch", "delay_send", "sleep_send",
               "checksum", "send", "send2", "status_get", "unlock"}

Last(q) == q[Len(q)]
\* The requests of the transaction thread t is in (or has just finished).
TxnLog(t) == SelectSeq(log[t], LAMBDA e : e.x = ntxn[t])
Shape(q) == [i \in 1..Len(q) |-> <<q[i].req, q[i].ok>>]
IsPrefix(a, b) == Len(a) <= Len(b) /\ \A i \in 1..Len(a) : a[i] = b[i]

\* The transaction the write callback c starts with.
WriteTxn(p, c) ==
    IF c.fn = "octo_write" THEN octo_write(p, c, "entry", 0, 0).txn
    ELSE aqc_write(p, c, "entry", 0, 0).txn
IsWrite(c) == c.fn \in {"aqc_write", "octo_write"}

\* C1: at most one of aqc_get_ctrl_val, aqc_set_ctrl_vals and aqc_legacy_read
\* (and the locked sections of octo_read and octo_write) is between its lock
\* and its unlock at any time, the thread in it is the mutex holder, and every
\* step that issues a transport request or touches priv->buffer or the device
\* image is taken by the thread that holds the mutex before and after it; so
\* no request of one transaction falls between the GET and the last SET of
\* another.
C1_TransactionsSerialised ==
    /\ [](\A t \in Threads : InTxn(t) => mutex = t)
    /\ [](\A t1, t2 \in Threads : (InTxn(t1) /\ InTxn(t2)) => t1 = t2)
    /\ [][(\/ buffer' # buffer
           \/ dev_image' # dev_image
           \/ \E t \in Threads : Len(log'[t]) > Len(log[t]))
          => \E t \in Threads : pc'[t] # pc[t] /\ mutex = t /\ mutex' = t]_vars

\* C1's case: a thread is inside a set transaction, past its GET, while
\* another thread is blocked in mutex_lock.
C1_Witness ==
    \E t1, t2 \in Threads :
        /\ t1 # t2
        /\ pc[t1] = "send" /\ raced[t2] /\ pc[t2] = "lock"

\* C2: every byte a successful primary SET stored on behalf of a set call is
\* still in the device image unless a later successful SET stored another
\* value there; in particular two racing aqc_set_ctrl_val calls on disjoint
\* ranges that both succeed leave both values in the image.
C2_NoLostUpdate ==
    /\ \A o \in DOMAIN expect : o \in DOMAIN dev_image /\ dev_image[o] = expect[o]
    /\ \A t1, t2 \in Threads :
         (/\ t1 # t2
          /\ pc[t1] = "idle" /\ pc[t2] = "idle"
          /\ IsWrite(call[t1]) /\ IsWrite(call[t2])
          /\ log[t1] # <<>> /\ log[t2] # <<>>
          /\ out[t1].ret >= 0 /\ out[t2].ret >= 0
          /\ PatchedOffsets(WriteTxn(priv, call[t1]))
                 \cap PatchedOffsets(WriteTxn(priv, call[t2])) = {})
         => \A t \in {t1, t2} :
                LET b == PatchedBytes(WriteTxn(priv, call[t])) IN
                \A o \in DOMAIN b : dev_image[o] = b[o]

\* C2's case: two set calls on disjoint ranges overlapped in time (one found
\* the mutex taken), both returned success, and the image holds a value that
\* differs from what the device held before.
C2_Witness ==
    \E t1, t2 \in Threads :
        /\ t1 # t2
        /\ pc[t1] = "idle" /\ pc[t2] = "idle"
        /\ IsWrite(call[t1]) /\ IsWrite(call[t2])
        /\ out[t1].ret >= 0 /\ out[t2].ret >= 0
        /\ Len(log[t1]) = 3 /\ Len(log[t2]) = 3
        /\ raced[t2]
        /\ PatchedOffsets(WriteTxn(priv, call[t1]))
               \cap PatchedOffsets(WriteTxn(priv, call[t2])) = {}
        /\ \E o \in PatchedOffsets(WriteTxn(priv, call[t1])) :
               dev_image[o] # Image(0, priv.buffer_size)[o]
        /\ \E o \in PatchedOffsets(WriteTxn(priv, call[t2])) :
               dev_image[o] # Image(0, priv.buffer_size)[o]

\* The primary SET of t's transaction has just been issued.
AfterPrimary(t) ==
    /\ pc[t] \in {"send2", "unlock"}
    /\ TxnLog(t) # <<>>
    /\ Last(TxnLog(t)).req = "SET"
ChecksumOffsets(p) == {p.buffer_size - 2, p.buffer_size - 1}

\* C3: the image a primary SET carries equals the image the GET of the same
\* transaction returned, except at the bytes the transaction patched and, on
\* checksummed models, at the two checksum bytes.
C3_SetImageIsGetImagePatched ==
    \A t \in Threads :
        AfterPrimary(t) =>
            /\ DOMAIN sent = DOMAIN got
            /\ \A i \in DOMAIN sent :
                   (/\ i \notin PatchedOffsets(txn[t])
                    /\ ~(HasChecksum(priv) /\ i \in ChecksumOffsets(priv)))
                   => sent[i] = got[i]

\* C3's case: a primary SET was issued whose image differs from the GET image
\* at a patched byte.
C3_Witness ==
    \E t \in Threads :
        /\ AfterPrimary(t)
        /\ \E i \in PatchedOffsets(txn[t]) : sent[i] # got[i]

\* C4: on every model but Aquaero and Aquastream XT the image of a primary SET
\* carries, big-endian at buffer_size - 2, the CRC-16/USB of the buffer_size - 3
\* bytes from offset 1 on, computed over the image as patched (the D5 Next
\* image is 0x329 bytes with the checksum at 0x327).  CRC-16/USB is pinned by
\* its check value: "123456789" gives 0xB4C8.
C4_ChecksumOverPatchedImage ==
    /\ 65535 - crc16(65535, <<49, 50, 51, 52, 53, 54, 55, 56, 57>>, 1, 9) = 46280
    /\ \A t \in Threads :
         (pc[t] = "send2" /\ ~(priv.driver = "aquacomputer_d5next"
                                /\ priv.kind \in {"aquaero", "aquastreamxt"})) =>
            /\ get_unaligned_be16(sent, priv.buffer_size - 2)
                   = 65535 - crc16(65535, sent, 1, priv.buffer_size - 3)
            /\ LET b == PatchedBytes(txn[t]) IN \A o \in DOMAIN b : sent[o] = b[o]
            /\ (priv.driver = "aquacomputer_d5next" /\ priv.kind = "d5next")
                   => (Len(log[t]) > 0 /\ Last(log[t]).size = 809
                       /\ priv.buffer_size - 2 = 807)

\* C4's case: a D5 Next primary SET went out with a checksum that differs
\* from the one in the GET image.
C4_Witness ==
    \E t \in Threads :
        /\ pc[t] = "send2"
        /\ priv.driver = "aquacomputer_d5next" /\ priv.kind = "d5next"
        /\ get_unaligned_be16(sent, 807) # get_unaligned_be16(got, 807)

\* The set transaction of t has issued its requests: t is about to unlock or
\* has returned to the callback.
SetTxnDone(t) == pc[t] \in {"unlock", "run"} /\ IsSetTxn(txn[t]) /\ ntxn[t] > 0
SetTxnOpen(t) == (InTxn(t) \/ pc[t] = "run") /\ IsSetTxn(txn[t]) /\ ntxn[t] > 0

\* The request sequences a finished set transaction can have made.
SetTxnShapes ==
    {<<<<"GET", FALSE>>>>,
     <<<<"GET", TRUE>>, <<"SET", FALSE>>>>,
     <<<<"GET", TRUE>>, <<"SET", TRUE>>, <<"SET2", TRUE>>>>,
     <<<<"GET", TRUE>>, <<"SET", TRUE>>, <<"SET2", FALSE>>>>}

\* The secondary report of each model, as the vendor's software sends it.
FixedSecondary(p) ==
    IF p.driver = "aquacomputer_d5next" /\ p.kind = "aquaero"
    THEN [id |-> 6, size |-> 7, data |-> <<6, 0, 2, 0, 0, 0, 0>>]
    ELSE IF p.driver = "aquacomputer_d5next" /\ p.kind = "aquastreamxt"
    THEN [id |-> 2, size |-> 4, data |-> <<2, 5, 0, 0>>]
    ELSE [id |-> 2, size |-> 11, data |-> <<2, 0, 0, 0, 2, 0, 0, 0, 0, 52, 198>>]

\* C5: a set transaction issues exactly one control GET, then at most one
\* primary SET, then at most one secondary SET, in that order; the secondary
\* SET is issued exactly when the primary SET succeeded, it carries the
\* model's fixed secondary report id, size and payload, and nothing is issued
\* again after a failure.
C5_RequestSequence ==
    \A t \in Threads :
        /\ SetTxnOpen(t) =>
              /\ \E q \in SetTxnShapes : IsPrefix(Shape(TxnLog(t)), q)
              /\ \A i \in DOMAIN TxnLog(t) :
                     LET e == TxnLog(t)[i] IN
                     /\ e.req = "SET2" =>
                            /\ e.id = FixedSecondary(priv).id
                            /\ e.size = FixedSecondary(priv).size
                            /\ e.data = FixedSecondary(priv).data
                            /\ Len(e.data) = e.size
                     /\ e.req \in {"GET", "SET"} =>
                            e.id = priv.ctrl_report_id /\ e.size = priv.buffer_size
        /\ SetTxnDone(t) => Shape(TxnLog(t)) \in SetTxnShapes

\* C5's case: a set transaction made all three requests and is about to
\* unlock; its secondary SET failed.
C5_Witness ==
    \E t \in Threads :
        /\ pc[t] = "unlock" /\ IsSetTxn(txn[t])
        /\ Shape(TxnLog(t)) = <<<<"GET", TRUE>>, <<"SET", TRUE>>, <<"SET2", FALSE>>>>

\* The primary SET of t's set transaction succeeded and its secondary SET
\* failed.
SecondaryFailed(t) ==
    Shape(TxnLog(t)) = <<<<"GET", TRUE>>, <<"SET", TRUE>>, <<"SET2", FALSE>>>>

\* C6: when the primary SET of a write succeeds and the secondary SET fails,
\* aqc_send_ctrl_data / octo_send_ctrl_data and the write callback return a
\* negative error, the device keeps the image of the primary SET, and no
\* further request is sent.
C6_SecondaryFailureReported ==
    \A t \in Threads :
        /\ (SetTxnDone(t) /\ SecondaryFailed(t)) =>
               /\ ret[t] < 0
               /\ dev_image = sent
        /\ (pc[t] = "idle" /\ IsWrite(call[t]) /\ ntxn[t] > 0 /\ SecondaryFailed(t)) =>
               /\ out[t].ret < 0
               /\ Last(log[t]).req = "SET2"
               /\ dev_image = sent

\* C6's case: a write callback has returned after its secondary SET failed.
C6_Witness ==
    \E t \in Threads :
        /\ pc[t] = "idle" /\ IsWrite(call[t]) /\ ntxn[t] > 0 /\ SecondaryFailed(t)
        /\ out[t].ret \in TransportErrors
        /\ dev_image # Image(0, priv.buffer_size)

\* The control GET of t's transaction failed.
FailedGet(t) ==
    /\ pc[t] \in {"unlock", "run"}
    /\ (IsSetTxn(txn[t]) \/ IsGetTxn(txn[t]))
    /\ TxnLog(t) # <<>>
    /\ TxnLog(t)[1].req = "GET" /\ ~TxnLog(t)[1].ok

\* C7: when the control GET fails, aqc_get_ctrl_val and aqc_set_ctrl_vals
\* return -ENODATA, issue no SET of any kind, leave the device image as it
\* was, and release the mutex.
C7_FailedGetAborts ==
    /\ [](\A t \in Threads :
            FailedGet(t) =>
                /\ ret[t] = -61
                /\ Len(TxnLog(t)) = 1
                /\ (pc[t] = "run" => mutex # t))
    /\ [][(\E t \in Threads : FailedGet(t)') => dev_image' = dev_image]_vars

\* C7's case: a set transaction whose GET failed has returned to its caller.
C7_Witness ==
    \E t \in Threads :
        /\ FailedGet(t) /\ pc[t] = "run" /\ IsSetTxn(txn[t])
        /\ ret[t] = -ENODATA /\ mutex = NoThread

\* The control GET of some transaction of t's callback failed.
GetFailed(t) == \E i \in DOMAIN log[t] : log[t][i].req = "GET" /\ ~log[t][i].ok

\* C8: every read accessor that takes its value from the control report (pwm,
\* pwm_enable, pwm mode, temperature offset, fan min/max, curve points, curve
\* parameters, in aquacomputer_d5next.c and in aquacomputer_octo.c) returns a
\* negative error, never success, when its control GET failed.
C8_ReadAccessorsSurfaceGetFailure ==
    \A t \in Threads :
        (pc[t] = "idle" /\ ncalls[t] > 0 /\ GetFailed(t)) => out[t].ret < 0

\* The models that set ctrl_report_delay.
DelayModel(p) ==
    p.driver = "aquacomputer_d5next" /\ p.kind \in {"aquaero", "d5next", "octo", "quadro"}

\* C9: on Aquaero, D5 Next, Octo and Quadro every control GET and every
\* primary SET is issued at least 200 ms after the time recorded at the end of
\* the previous control operation, and the wait asked of msleep before it is
\* never longer than 200 ms.
C9_ControlReportDelay ==
    DelayModel(priv) =>
        /\ priv.ctrl_report_delay = 200
        /\ \A t \in Threads : \A i \in DOMAIN log[t] :
               LET e == log[t][i] IN
               e.req \in {"GET", "SET"} =>
                   /\ e.at - e.prev >= 200 * 1000
                   /\ e.wait >= 0 /\ e.wait <= 200

\* C9's case: a GET that had to wait part of the 200 ms after an earlier
\* operation, followed by a primary SET that had to wait all of it.
C9_Witness ==
    /\ DelayModel(priv)
    /\ \E t \in Threads : \E i, j \in DOMAIN log[t] :
           /\ log[t][i].req = "GET" /\ log[t][i].wait > 0 /\ log[t][i].wait < 200
           /\ log[t][j].req = "SET" /\ log[t][j].wait = 200

\* A push report has been decoded since probe.
ReportDecoded == updated >= (InitNow * HZ) \div USEC_PER_SEC

\* The cached value a telemetry read is about.
Cached(c) ==
    CASE c.type = "temp" -> snap.temp_input[c.channel + 1]
      [] c.type = "fan" -> snap.speed_input[c.channel + 1]
      [] c.type = "power" -> snap.power_input[c.channel + 1]
      [] c.type = "in" -> snap.voltage_input[c.channel + 1]
      [] OTHER -> snap.current_input[c.channel + 1]

\* C10: in every driver, a telemetry read on a push device returns -ENODATA
\* exactly when jiffies is more than 2 * HZ after the jiffies of the last
\* decoded push report, and returns the cached value otherwise.
C10_StaleAfterTwoSeconds ==
    [][\A t \in Threads :
           (pc[t] = "run" /\ pc'[t] = "idle" /\ ReportDecoded) =>
               IF jiffies > updated + 2 * HZ
               THEN out'[t].ret = -ENODATA
               ELSE out'[t].ret = 0 /\ out'[t].val = Val(Cached(call[t]))]_vars

\* C11: a telemetry read on a push device made after probe and before any
\* push report was decoded returns -ENODATA, never a value of the zeroed
\* cache, at every time, the jiffy of probe included.
C11_NoValueBeforeFirstReport ==
    [][\A t \in Threads :
           (pc[t] = "run" /\ pc'[t] = "idle" /\ ~ReportDecoded) =>
               out'[t].ret = -ENODATA]_vars

\* C12: a push report shorter than the offsets the decoder reads is dropped:
\* the decoder reads no byte at or beyond the report's size, and the cache
\* and its timestamp stay as they were.
C12_ShortReportDropped ==
    [][(priv.status_report_id = 0 /\ irq'.id = STATUS_REPORT_ID
            /\ irq'.size < ReadEnd(priv))
          => (snap' = snap /\ updated' = updated)]_vars

\* A read of tempN_input.
TempRead(c) == c.type = "temp" /\ c.attr = "temp_input"

\* C13: a telemetry read that runs while raw_event decodes a report never
\* accepts as fresh a cache that mixes values of the newer report with
\* values of the older one: when a read returns success, the cache holds
\* what one report decoded to.
C13_NoTornSnapshot ==
    [][\A t \in Threads :
           (pc[t] = "run" /\ pc'[t] = "idle" /\ out'[t].ret = 0 /\ irq.pc # "idle") =>
               snap \in {irq.start, irq.new}]_vars

\* C14: in every driver, a fresh read of a temperature channel whose raw
\* value in the last decoded report is 0x7FFF returns -ENODATA, and a read of
\* a channel with another raw value returns a value.
C14_NotAvailableIsNoData ==
    [][\A t \in Threads :
           (/\ pc[t] = "run" /\ pc'[t] = "idle"
            /\ priv.status_report_id = 0
            /\ TempRead(call[t])
            /\ irq.id = STATUS_REPORT_ID /\ irq.size = SensorReportLen
            /\ jiffies <= updated + STATUS_VALIDITY * HZ)
           => IF irq.temps[call[t].channel] = AQC_SENSOR_NA
              THEN out'[t].ret = -ENODATA
              ELSE out'[t].ret = 0]_vars

\* C15: aqc_raw_event (big-endian) and aqc_legacy_read (little-endian) store
\* every raw temperature other than 0x7FFF as the signed 16-bit value times
\* 10, so that 0xFFFF becomes -10.
C15_TemperatureSignedTimesTen ==
    [][/\ (priv.driver = "aquacomputer_d5next" /\ priv.status_report_id = 0
            /\ irq'.id = STATUS_REPORT_ID /\ irq'.size = SensorReportLen)
           => \A ch \in 0..(NumChannels - 1) :
                  (ch < NumTemps(priv) /\ irq'.temps[ch] # AQC_SENSOR_NA)
                      => snap'.temp_input[ch + 1] = s16(irq'.temps[ch]) * 10
       /\ \A t \in Threads :
              (pc[t] = "status_get" /\ pc'[t] = "unlock" /\ ret'[t] >= 0)
                  => \A ch \in 0..(NumChannels - 1) :
                         LET raw == get_unaligned_le16(buffer', TempOffset(priv, ch)) IN
                         (ch < priv.num_temp_sensors /\ raw # AQC_SENSOR_NA)
                             => snap'.temp_input[ch + 1] = s16(raw) * 10]_vars

\* What a sensor read returns from the cache: the value, or -ENODATA for a
\* sensor the device reported as not available.
Served(t) ==
    IF Cached(call[t]) = -ENODATA /\ call[t].type \in {"temp", "fan"}
    THEN out'[t].ret = -ENODATA
    ELSE out'[t].ret = 0 /\ out'[t].val = Val(Cached(call[t]))

\* The jiffies at which the status request r was issued.
JiffiesAt(r) == (r.at * HZ) \div USEC_PER_SEC

\* C16: on a polled model a telemetry read fetches the status report
\* exactly when priv->updated is more than 2 * HZ in the past, and then once;
\* after a successful GET the cache holds the decoding of the fetched report,
\* priv->updated is the jiffies of the fetch and the read returns the decoded
\* value; after a failed GET the read returns -ENODATA; a read made within
\* 2 seconds of a fetch returns the cached value with no GET; and the cache
\* and priv->updated change only in a successful fetch.
C16_StaleReadPollsOnce ==
    [][/\ \A t \in Threads :
            /\ (pc[t] = "run" /\ pc'[t] # "run" /\ stage[t] = "entry") =>
                   ((pc'[t] = "lock") <=> (jiffies > updated + 2 * HZ))
            /\ (pc[t] = "run" /\ pc'[t] = "idle") =>
                   IF stage[t] = "entry"
                   THEN log[t] = <<>> /\ Served(t)
                   ELSE /\ Len(log[t]) = 1
                        /\ log[t][1].req = "STATUS"
                        /\ IF log[t][1].ok
                           THEN /\ updated = JiffiesAt(log[t][1])
                                /\ snap = aqc_legacy_read_decode(priv, buffer, snap)
                                /\ Served(t)
                                /\ (call[t].type = "temp" /\ out'[t].ret = 0) =>
                                       out'[t].val =
                                           Val(get_unaligned_le16(
                                                   buffer, TempOffset(priv, call[t].channel))
                                               * 10)
                           ELSE out'[t].ret = -ENODATA
       /\ (snap' # snap \/ updated' # updated) =>
              \E t \in Threads : pc[t] = "status_get" /\ ret'[t] >= 0 /\ updated' = jiffies]_vars

\* A read fetched the report, and a second read, made a second later, has
\* returned a value without a GET.
C16_Witness ==
    /\ priv.status_report_id # 0
    /\ ncalls[1] = 2
    /\ pc[1] = "idle"
    /\ log[1] = <<>>
    /\ out[1].ret = 0
    /\ ReportDecoded
    /\ jiffies >= updated + HZ

\* C17: a push report under an id other than 0x01 changes no cached value
\* and not the timestamp, and the callback returns 0.
C17_OtherReportIdIgnored ==
    [][(priv.status_report_id = 0 /\ irq'.id # STATUS_REPORT_ID)
          => (snap' = snap /\ hw' = hw /\ updated' = updated /\ irq'.ret = 0)]_vars

\* A report under another id arrived after a decoded one, the cache went on
\* ageing and a read found it stale.
C17_Witness ==
    /\ priv.status_report_id = 0
    /\ irq.id = STATUS_REPORT_ID + 1
    /\ ReportDecoded
    /\ jiffies > updated + STATUS_UPDATE_INTERVAL
    /\ \E t \in Threads : pc[t] = "idle" /\ ncalls[t] > 0 /\ out[t].ret = -ENODATA

\* C18: decoding a push report never takes priv->mutex: wherever a control
\* transaction stands between mutex_lock and mutex_unlock, its sleep for the
\* delay and its requests included, raw_event can run to its end on a
\* sensor report and stamp priv->updated, and no run of it changes the
\* holder of the mutex.
C18_RawEventNeverWaits ==
    [][/\ (\E t \in Threads : InTxn(t)) =>
              ENABLED (raw_event /\ irq'.id = STATUS_REPORT_ID /\ updated' = jiffies)
       /\ (irq' # irq) => (mutex' = mutex /\ pc' = pc)]_vars

\* A sensor report was decoded while the transaction now sleeping for the
\* delay held the mutex.
C18_Witness ==
    /\ mutex = 1
    /\ pc[1] \in {"sleep_get", "sleep_send"}
    /\ ncalls[1] = 1
    /\ ntxn[1] = 1
    /\ irq.held
    /\ irq.id = STATUS_REPORT_ID
    /\ updated = jiffies
    /\ now > InitNow

\* The distance between a duty value and what it reads back as.
Dist(a, b) == IF a >= b THEN a - b ELSE b - a

\* C19 as stated: for every x in 0..10000, aqc_pwm_to_percent(
\* aqc_percent_to_pwm(x)) differs from x by at most 1.
C19_RoundTripWithinOne ==
    (conv.done /\ conv.x \in 0..10000) => Dist(conv.percent, conv.x) <= 1

\* C19, amended: for every x in 0..10000, aqc_pwm_to_percent(
\* aqc_percent_to_pwm(x)) differs from x by at most 20, half a step of the
\* 255-step scale; so does the pair of aquacomputer_octo.c.
C19_RoundTripWithinTwenty ==
    (conv.done /\ conv.x \in 0..10000) =>
        /\ Dist(conv.percent, conv.x) <= 20
        /\ Dist(conv.octo_percent, conv.x) <= 20

\* A duty value that reads back 20 away: 0.98 % is pwm 2, which is 0.78 %.
C19_Witness ==
    /\ conv.done
    /\ conv.x = 98
    /\ conv.pwm = 2
    /\ Dist(conv.percent, conv.x) = 20

\* C20: aqc_percent_to_pwm is non-decreasing over 0..10000, is 0 at 0 and
\* 255 at 10000, and every result lies in 0..255; aqc_pwm_to_percent is 0
\* at 0 and 10000 at 255.
C20_PercentToPwmMonotone ==
    (conv.done /\ conv.x \in 0..10000) =>
        /\ conv.prev <= conv.pwm
        /\ conv.pwm \in 0..255
        /\ (conv.x = 0 => conv.pwm = 0 /\ conv.percent = 0)
        /\ (conv.x = 10000 => conv.pwm = 255 /\ conv.percent = 10000)

\* The conversions at the top of the range.
C20_Witness ==
    /\ conv.done
    /\ conv.x = 10000
    /\ conv.pwm = 255
    /\ conv.percent = 10000
    /\ conv.prev = 255

\* Bit q of the number v.
RECURSIVE Pow2(_)
Pow2(n) == IF n = 0 THEN 1 ELSE 2 * Pow2(n - 1)
BitOf(v, q) == (v \div Pow2(q)) % 2

\* C21: aqc_set_bit_at_pos(v, p, bit) has bit p equal to bit and every other
\* bit equal to that of v; setting bit p to 1 and then to 0 gives v with bit
\* p cleared; and aqc_get_bit_at_pos of the result at p returns the bit set.
C21_SetBitTouchesOneBit ==
    conv.done =>
        /\ conv.set >= 0
        /\ \A q \in 0..30 :
               BitOf(conv.set, q) = IF q = conv.p THEN conv.bit ELSE BitOf(conv.v, q)
        /\ conv.set_clear = conv.v - BitOf(conv.v, conv.p) * Pow2(conv.p)
        /\ conv.got = conv.bit

\* A set bit of the flags byte was cleared, its neighbours being set.
C21_Witness ==
    /\ conv.done
    /\ conv.v = 7
    /\ conv.p = 1
    /\ conv.bit = 0
    /\ conv.set = 5
    /\ conv.set_clear = 5


\* A call that writes a duty cycle outside 0..255.
PwmOutOfRange(c) ==
    /\ \/ c.fn \in StorePwmFns
       \/ c.fn = "aqc_write" /\ c.type = "pwm" /\ c.attr = "pwm_input"
    /\ (c.val < 0 \/ c.val > 255)

OffsetOutOfRange(c) ==
    /\ c.fn = "aqc_write" /\ c.type = "temp" /\ c.attr = "temp_offset"
    /\ (c.val < -15000 \/ c.val > 15000)

\* C23: a write to tempN_offset of more than 15 degrees either way (outside
\* -15000..15000) is rejected as out of range before any device I/O, and
\* the device's configuration stays as it was.
C23_OffsetOutOfRangeRejected ==
    [][\A t \in Threads :
          OffsetOutOfRange(call'[t]) =>
              /\ dev_image' = dev_image
              /\ ntxn'[t] = 0
              /\ log'[t] = <<>>
              /\ (pc'[t] = "idle" => out'[t].ret < 0)]_vars


\* The functions behind curveN_start_boost and curveN_power_hold_min.
BoostHoldFns == {"show_curve_start_boost", "store_curve_start_boost",
                 "show_curve_power_hold_min", "store_curve_power_hold_min"}

\* C24: on the D5 Next "start boost" and "hold minimum power" are missing
\* for the pump (channel 0) only and can be read and written for the fan
\* (channel 1); on the Octo and the Quadro they can be read and written for
\* every channel.
C24_BoostAndHoldOnAllButThePump ==
    \A fn \in BoostHoldFns :
        /\ priv.kind = "d5next" =>
               /\ sysfs_mode(priv, fn, 0) = 0
               /\ sysfs_mode(priv, fn, 1) = S_0644
        /\ priv.kind \in {"octo", "quadro"} =>
               \A ch \in 0..(priv.num_fans - 1) : sysfs_mode(priv, fn, ch) = S_0644




\* The device is of a model without fans.
NoFans == priv.num_fans = 0

\* C25: on every model without fans (num_fans = 0) aqc_is_visible() reports
\* no fan, pwm, power, voltage or current channel as readable or writable,
\* whatever the channel and the attribute.
C25_NoFanChannelsWithoutFans == (conv.done /\ NoFans) => conv.mode = 0

\* C25 as the code has it: on a model without fans no pwm and no current
\* channel is visible.  The Farbwerk, Farbwerk 360, Poweradjust 3 and High
\* Flow USB show no fan, power or voltage channel either.  The High Flow
\* Next shows fan channels 0..2, power channel 0 and voltage channels 0..1,
\* read-only; the Leakshield shows fan channels 0..4, of which 1 and 2 are
\* writable, and fan_min, fan_max and fan_target of channel 0, read-only.
C25_FanChannelsWithoutFans ==
    (conv.done /\ NoFans) =>
        LET type == conv.type
            attr == conv.attr
            ch == conv.channel
        IN conv.mode =
               CASE type \in {"pwm", "curr"} -> 0
                 [] priv.kind = "highflownext" ->
                      IF \/ type = "fan" /\ attr \in {"fan_input", "fan_label"} /\ ch < 3
                         \/ type = "power" /\ ch = 0
                         \/ type = "in" /\ ch < 2
                      THEN S_0444 ELSE 0
                 [] priv.kind = "leakshield" ->
                      IF type = "fan" /\ attr \in {"fan_input", "fan_label"}
                      THEN (IF ch \in {1, 2} THEN S_0644
                            ELSE IF ch < 5 THEN S_0444 ELSE 0)
                      ELSE IF type = "fan" /\ ch = 0
                              /\ attr \in {"fan_min", "fan_max", "fan_target"}
                      THEN S_0444 ELSE 0
                 [] OTHER -> 0
C25_Witness ==
    /\ conv.done
    /\ NoFans
    /\ priv.kind = "leakshield"
    /\ conv.type = "fan" /\ conv.attr = "fan_input" /\ conv.channel = 1
    /\ conv.mode = S_0644


\* The query is the one that waits for the first report.
GateQuery == IsVisibleWaits(priv, conv.type, conv.attr, conv.channel)

\* C27: on the Aquaero the first-report gate becomes satisfied when the
\* first sensor report is decoded and never becomes unsatisfied again.  A
\* pwm_mode query waits for it for STATUS_UPDATE_INTERVAL (2 s) at most; on
\* a timeout it reports the attribute absent, otherwise it reports it
\* writable exactly if the hardware is an Aquaero 6, or an Aquaero 5 and the
\* channel is the fourth fan.
C27_FirstReportGate ==
    [][/\ hw.received => hw'.received
       /\ priv.kind = "aquaero" => (hw'.received <=> irq'.id = STATUS_REPORT_ID)
       /\ (GateQuery /\ conv'.done /\ ~conv.done) =>
              /\ conv'.end - conv'.start <= STATUS_UPDATE_INTERVAL
              /\ STATUS_UPDATE_INTERVAL = 2 * HZ
              /\ ~hw.received =>
                     /\ conv'.mode = 0
                     /\ conv'.end - conv'.start = STATUS_UPDATE_INTERVAL
              /\ hw.received =>
                     conv'.mode =
                         IF \/ hw.aquaero_hw_kind = "aquaero6"
                            \/ hw.aquaero_hw_kind = "aquaero5" /\ conv.channel = 3
                         THEN S_0644 ELSE 0]_vars
C27_Witness ==
    /\ GateQuery
    /\ conv.done
    /\ conv.end > conv.start
    /\ conv.hw.received
    /\ conv.hw.aquaero_hw_kind = "aquaero5"
    /\ conv.channel = 3
    /\ conv.mode = S_0644


\* The two halves of C26: the conversion of a write, and that of a read.
C26_PumpWriteWithinRange ==
    (conv.done /\ conv.op = "write") =>
        /\ conv.out \in AQUASTREAMXT_PUMP_MIN_RPM..AQUASTREAMXT_PUMP_MAX_RPM
        /\ conv.out % 60 = 0
C26_PumpReadWithinRange ==
    (conv.done /\ conv.op = "read") =>
        /\ conv.out \in 0..255
        /\ conv.x = 0 => conv.rpm = 0

\* C26: the Aquastream XT conversions stay within 3000..6000 RPM:
\* aqc_aquastreamxt_pwm_to_rpm() returns a multiple of 60 within 3000..6000
\* for every PWM in 0..255, and a read of the pump's pwm returns a value
\* within 0..255 for every 16-bit raw control value, raw 0 being converted
\* to 0 RPM without a division by zero.
C26_PumpConversionsWithinRange == C26_PumpWriteWithinRange /\ C26_PumpReadWithinRange


\* The mode byte and the manual setpoint of a fan, as the device holds them.
ModeByte(ch) == dev_image[priv.fan_ctrl_offsets[ch + 1]]
Setpoint(ch) ==
    get_unaligned_be16(dev_image, priv.fan_ctrl_offsets[ch + 1] + AQC_FAN_CTRL_PWM_OFFSET)
IsEnable(c, fn) == c.fn = fn /\ c.type = "pwm" /\ c.attr = "pwm_enable"

\* C28: on the D5 Next, Octo and Quadro pwmN_enable crosses the hwmon
\* boundary with an offset of one.  When a write of an accepted v >= 1 has
\* succeeded the mode byte holds v - 1; when a write of 0 has succeeded the
\* mode byte holds 0 and the manual setpoint 10000.  A read that follows
\* leaves the device alone and returns the mode byte plus one: v, and 1
\* after a write of 0.
C28_EnableOffByOne ==
    [][\A t \in {1} :
          LET c == call[t] IN
          /\ (IsEnable(c, "aqc_write") /\ pc[t] = "run" /\ pc'[t] = "idle"
                 /\ out'[t].ret = 0) =>
                 /\ ModeByte(c.channel)' = IF c.val = 0 THEN 0 ELSE c.val - 1
                 /\ c.val = 0 => Setpoint(c.channel)' = 10000
          /\ (IsEnable(c, "aqc_read") /\ pc[t] # "idle") => dev_image' = dev_image
          /\ (IsEnable(c, "aqc_read") /\ pc[t] = "run" /\ pc'[t] = "idle"
                 /\ out'[t].ret = 0) =>
                 /\ out'[t].val.set
                 /\ out'[t].val.v = ModeByte(c.channel) + 1]_vars
C28_Witness ==
    /\ pc[1] = "idle"
    /\ ncalls[1] = 2
    /\ IsEnable(call[1], "aqc_read")
    /\ call[1].channel = 0
    /\ out[1].ret = 0
    /\ out[1].val = Val(1)
    /\ ModeByte(0) = 0
    /\ Setpoint(0) = 10000


\* A read of `type` returns to its caller in this step.
ReadReturns(type) ==
    /\ call[1].fn = "aqc_read" /\ call[1].type = type
    /\ pc[1] = "run" /\ pc'[1] = "idle"

\* C29: a read never returns a number for a channel whose decoded state is
\* "no data": a read of the power of a High Flow Next returns -ENODATA and
\* no value whenever the last report had the external temperature sensor
\* absent (raw 0x7FFF), as a read of that temperature does.
C29_PowerNoDataIsError ==
    [][(priv.kind = "highflownext" /\ snap.temp_input[2] = -ENODATA) =>
           /\ (ReadReturns("temp") /\ call[1].channel = 1) =>
                  (out'[1].ret = -ENODATA /\ ~out'[1].val.set)
           /\ (ReadReturns("power") /\ call[1].channel = 0) =>
                  (out'[1].ret = -ENODATA /\ ~out'[1].val.set)]_vars


\* A read of the first channel of `type` returns a value in this step.
FanReadReturns(type) ==
    /\ call[1].fn \in {"aqc_read", "octo_read"} /\ call[1].type = type
    /\ pc[1] = "run" /\ pc'[1] = "idle"
    /\ out'[1].ret = 0 /\ out'[1].val.set

\* C30: for every fan record and every 16-bit raw value of its fields, the
\* value kept in the snapshot and returned by a read is raw * 10 for the
\* voltage, raw * 10000 for the power and raw itself for the speed and the
\* current: nothing wraps around or is cut short.
C30_FanRecordScaled ==
    [][/\ conv'.done =>
              /\ snap'.voltage_input[1] = conv'.x * 10
              /\ snap'.power_input[1] = u32(conv'.x * 10000)
              /\ snap'.speed_input[1] = conv'.x
              /\ snap'.current_input[1] = conv'.x
       /\ conv.done =>
              /\ FanReadReturns("in") => out'[1].val.v = conv.x * 10
              /\ FanReadReturns("power") => out'[1].val.v = u32(conv.x * 10000)
              /\ FanReadReturns("fan") => out'[1].val.v = conv.x
              /\ FanReadReturns("curr") => out'[1].val.v = conv.x]_vars

\* The byte of the device that holds the curve flags of fan ch.
FlagsByte(ch) == dev_image[priv.fan_curve_hold_start_offsets[ch + 1]]

\* Thread t has returned from a successful store of the flag fn.
Stored(t, fn) ==
    /\ pc[t] = "idle" /\ ncalls[t] > 0
    /\ call[t].fn = fn /\ call[t].val \in {0, 1}
    /\ out[t].ret > 0

\* C31: when a store of "start boost" and a store of "hold minimum power" on
\* the same fan have run concurrently and both returned success, the device
\* byte has bit 2 equal to the start boost written and bit 1 equal to the
\* hold minimum power written: neither store puts back the other's bit as it
\* read it before the other's write.
C31_NoLostFlag ==
    \A t1, t2 \in Threads :
        (/\ t1 # t2
         /\ Stored(t1, "store_curve_start_boost")
         /\ Stored(t2, "store_curve_power_hold_min")
         /\ call[t1].channel = call[t2].channel) =>
            /\ aqc_get_bit_at_pos(FlagsByte(call[t1].channel),
                                  FAN_CURVE_START_BOOST_BIT_POS) = call[t1].val
            /\ aqc_get_bit_at_pos(FlagsByte(call[t1].channel),
                                  FAN_CURVE_HOLD_MIN_POWER_BIT_POS) = call[t2].val

\* Bytes a and b agree in every bit but bit pos.
SameButBit(a, b, pos) ==
    \A k \in 0..7 : k # pos => aqc_get_bit_at_pos(a, k) = aqc_get_bit_at_pos(b, k)

\* The primary SET of a flag store of thread t reaches the device in this
\* step.
FlagWritten(t) ==
    /\ call[t].fn \in StoreBitFns
    /\ pc[t] = "send" /\ pc'[t] = "send2"

\* C32: for every value store_curve_start_boost and
\* store_curve_power_hold_min accept, the byte the store writes to the device
\* differs from the byte it fetched only in the store's own bit (bit 2 for
\* start boost, bit 1 for hold minimum power): the other seven bits go back
\* as they were fetched.
C32_StoreTouchesOwnBit ==
    [][\A t \in Threads :
          FlagWritten(t) =>
              SameButBit(dev_image'[store_offset(priv, call[t])], val[t],
                         store_bit_pos(call[t]))]_vars

\* The mode byte of fan ch in the device: 0..2 are the modes of its own, and
\* 3 + k means that it follows fan k.
FanMode(ch) == dev_image[priv.fan_ctrl_offsets[ch + 1]]

\* Thread t is in (or back from) a write of pwmN_enable that asks for a fan
\* to be followed.
FollowWrite(t) ==
    /\ ncalls[t] > 0
    /\ call[t].fn = "aqc_write" /\ call[t].attr = "pwm_enable"
    /\ priv.kind \in {"octo", "quadro"}
    /\ call[t].val > 3

\* The fan asked for is the fan written to, or is none of the device's.
BadTarget(c) == c.val = c.channel + 4 \/ c.val > priv.num_fans + 3

\* The log of thread t holds a SET.
IssuedSet(t) == \E i \in 1..Len(log[t]) : log[t][i].req \in {"SET", "SET2"}

\* C33: on Octo and Quadro a write of pwmN_enable that asks fan c to follow
\* a fan is refused with -EINVAL, and no SET is issued, when the fan asked
\* for is fan c itself, when the value is above num_fans + 3, or when the mode
\* byte fetched for the fan asked for is above 2 (it follows a fan itself).
C33_FollowRefused ==
    \A t \in Threads :
        FollowWrite(t) =>
            /\ BadTarget(call[t]) =>
                   /\ log[t] = <<>>
                   /\ pc[t] \in {"run", "idle"}
                   /\ pc[t] = "idle" => out[t].ret = -EINVAL
            /\ (/\ ~BadTarget(call[t])
                /\ FanMode(call[t].val - 4) > 2
                /\ Len(log[t]) > 0
                /\ log[t][1].ok) =>
                   /\ ~IssuedSet(t)
                   /\ Len(log[t]) = 1
                   /\ pc[t] = "idle" => out[t].ret = -EINVAL

\* C33's case: a second write asked for a fan that the first write had made
\* follow another fan; the mode byte was fetched and the write refused.
C33_Witness ==
    /\ FollowWrite(1) /\ ncalls[1] = 2 /\ pc[1] = "idle"
    /\ ~BadTarget(call[1])
    /\ FanMode(call[1].val - 4) > 2
    /\ Len(log[1]) = 1 /\ log[1][1].ok
    /\ out[1].ret = -EINVAL

\* Fan ch follows another fan, and which.
Follows(ch) == FanMode(ch) > 2
Followed(ch) == FanMode(ch) - 3

\* C34: on Octo and Quadro, from a control report in which no fan follows a
\* fan that itself follows another, after any sequence of successful writes
\* of pwmN_enable no fan follows itself and no fan follows a fan that itself
\* follows another fan.
C34_NoFollowChain ==
    \A ch \in 0..(priv.num_fans - 1) :
        Follows(ch) =>
            /\ Followed(ch) # ch
            /\ Followed(ch) < priv.num_fans => ~Follows(Followed(ch))

\* Thread t is back from a write callback that returned an error.
WriteFailed(t) ==
    /\ pc[t] = "idle" /\ ncalls[t] > 0
    /\ call[t].fn = "aqc_write"
    /\ out[t].ret < 0

\* The requests of the call that failed were all secondary SETs.
OnlySecondaryFailed(t) ==
    \A i \in 1..Len(log[t]) : ~log[t][i].ok => log[t][i].req = "SET2"

\* A primary SET of the call reached the device.
DeviceWritten(t) ==
    \E i \in 1..Len(log[t]) : log[t][i].req = "SET" /\ log[t][i].ok

\* C35: a write callback that returns an error has written nothing to the
\* device, unless the only request that failed was the secondary SET: no
\* part of what the call was to write has reached the device while the rest
\* has not.  This includes the write of 0 to pwmN_enable, which is to set the
\* setpoint to 100% and the mode to 0.
C35_FailedWriteWritesNothing ==
    \A t \in Threads :
        (WriteFailed(t) /\ ~OnlySecondaryFailed(t)) => ~DeviceWritten(t)

\* Thread t is in (or back from) a pwm write on the Aquaero.
AquaeroPwmWrite(t) ==
    /\ ncalls[t] > 0 /\ priv.kind = "aquaero"
    /\ call[t].fn = "aqc_write" /\ call[t].attr = "pwm_input"
    /\ call[t].val \in 0..255

\* The image img holds the four fields as the pwm write c sets them.
FourFields(img, c) ==
    LET fan == priv.fan_ctrl_offsets[c.channel + 1] IN
    /\ get_unaligned_be16(img, AQUAERO_CTRL_PRESET_START
                               + c.channel * AQUAERO_CTRL_PRESET_SIZE)
           = aqc_pwm_to_percent(c.val)
    /\ get_unaligned_be16(img, fan + AQUAERO_FAN_CTRL_SRC_OFFSET)
           = AQUAERO_CTRL_PRESET_ID + c.channel
    /\ get_unaligned_be16(img, fan + AQUAERO_FAN_CTRL_MIN_PWR_OFFSET) = 0
    /\ get_unaligned_be16(img, fan + AQUAERO_FAN_CTRL_MAX_PWR_OFFSET) = 10000

\* The requests of thread t's call of the kind req.
Requests(t, req) == SelectSeq(log[t], LAMBDA e : e.req = req)

\* C36: a pwm write of 0..255 on the Aquaero applies its four fields (the
\* preset of the channel, the control source of the fan set to that preset,
\* minimum power 0, maximum power 10000) in one transaction with one GET and
\* one primary SET: every image it sends holds all four.  If a patched
\* field has a width aqc_set_buffer_val() does not know, the transaction
\* returns -EINVAL and issues no SET.
C36_FourFieldsInOneSet ==
    /\ [](\A t \in Threads :
            AquaeroPwmWrite(t) =>
                /\ ntxn[t] <= 1
                /\ Len(Requests(t, "GET")) <= 1
                /\ Len(Requests(t, "SET")) <= 1
                /\ Len(Requests(t, "SET")) = 1 =>
                       /\ Len(Requests(t, "GET")) = 1
                       /\ FourFields(sent, call[t])
                       /\ log[t][2].ok => FourFields(dev_image, call[t])
                /\ (pc[t] = "idle" /\ out[t].ret = 0) => Len(Requests(t, "SET")) = 1)
    /\ [](\A t \in Threads :
            (ncalls[t] > 0 /\ call[t].fn = "aqc_set_ctrl_vals") =>
                /\ Requests(t, "SET") = <<>> /\ Requests(t, "SET2") = <<>>
                /\ (pc[t] = "idle" /\ Len(log[t]) = 1 /\ log[t][1].ok) =>
                       out[t].ret = -EINVAL)

\* C36's case: the second call of a thread, a pwm write on the Aquaero, has
\* returned 0; the device holds all four fields, which the image fetched by
\* the GET of the transaction did not.
C36_Witness ==
    /\ AquaeroPwmWrite(1) /\ pc[1] = "idle" /\ out[1].ret = 0
    /\ ncalls[1] = 2
    /\ FourFields(dev_image, call[1])
    /\ ~FourFields(got, call[1])

\* The device whose attributes are registered has decoded a sensor report.
OwnReportDecoded == irq.id = STATUS_REPORT_ID

\* C37: with two Aquaeros attached, the first-report gate a capability query
\* of one device observes is satisfied only by a decoded sensor report of
\* that device: a pwm_mode query never gets past its wait, to read the
\* hardware kind of its device, because of a report of the other device
\* alone.
C37_GatePerDevice ==
    [][(GateQuery /\ ~conv.done /\ conv'.done /\ hw.received) => OwnReportDecoded]_vars

\* Whether every index of the store sets st lies inside its array.
StoresInside(st) ==
    \A a \in DOMAIN aqc_data_arrays : st[a] \subseteq 0..(aqc_data_arrays[a] - 1)
\* The stores of the decoder that fills the cache of this device.
DecoderStores(p) ==
    IF p.status_report_id = 0 THEN aqc_raw_event_stores(p) ELSE aqc_legacy_read_stores(p)
\* A label file is being read by thread t.
LabelRead(t) == pc[t] = "run" /\ call[t].fn = "aqc_read_string"
\* Thread t is inside a transaction on the control report.
InCtrlTxn(t) == pc[t] \notin {"idle", "run"} /\ txn[t].fn \in {"aqc_get_ctrl_val",
                                                              "aqc_set_ctrl_vals"}

\* C38: on every product, once a decoder has filled the cache every index it
\* stored at lies inside its array; every label file that is read takes its
\* string from inside the label table used for it; and every transaction a
\* visible file starts touches only bytes inside buffer_size.
C38_ProfileWellFormed ==
    /\ snap # snap_kzalloc => StoresInside(DecoderStores(priv))
    /\ \A t \in Threads :
         LabelRead(t) =>
             LET e == aqc_read_string_entry(priv, call[t].type, call[t].channel)
             IN e.index + 1 \in DOMAIN e.table
    /\ \A t \in Threads :
         InCtrlTxn(t) => PatchedOffsets(txn[t]) \subseteq 0..(priv.buffer_size - 1)

\* An Aquaero whose sensor report was decoded up to temp_input[39] has the
\* label of its last Aquabus sensor read: the last entry of the table.
C38_Witness ==
    /\ priv.kind = "aquaero"
    /\ snap # snap_kzalloc
    /\ 39 \in aqc_raw_event_stores(priv).temp_input
    /\ call[1] = Call("aqc_read_string", "temp", "temp_label", 39, 0, 0)
    /\ pc[1] = "idle"
    /\ out[1] = [ret |-> 0, val |-> Val(19)]
    /\ aqc_read_string_entry(priv, "temp", 39).table[19 + 1] = "Aquabus sensor 20"

\* The pwm write of thread 1 has returned 0.
PwmWritten == pc[1] = "idle" /\ ncalls[1] = MaxCalls /\ out[1].ret = 0
\* The pwm read of thread 2 has returned 0.
PwmReadBack == pc[2] = "idle" /\ ncalls[2] = MaxCalls /\ out[2].ret = 0

\* C39: a duty cycle p of 0..255 survives the conversion to hundredths of a
\* percent and back, and a read of pwm1 that follows a successful write of p
\* to pwm1 returns p.
C39_PwmRoundTrip ==
    /\ ncalls[1] = MaxCalls =>
           aqc_percent_to_pwm(aqc_pwm_to_percent(call[1].val)) = call[1].val
    /\ (PwmWritten /\ PwmReadBack) => out[2].val = Val(call[1].val)

\* A duty cycle of 1, stored as 39 hundredths of a percent, has been written
\* and read back as 1.
C39_Witness ==
    /\ PwmWritten /\ PwmReadBack
    /\ call[1].val = 1
    /\ aqc_pwm_to_percent(1) = 39
    /\ out[2].val = Val(1)

\* C40: a thread that holds priv->mutex releases it, whether its GET failed,
\* its SET failed, a field had an unknown type or all went well; and a thread
\* waiting at mutex_lock() gets the mutex.
C40_MutexReleased ==
    \A t \in Threads :
        /\ (mutex = t) ~> (mutex # t)
        /\ (pc[t] = "lock") ~> (mutex = t)

\* Thread 2 found the mutex held when it reached mutex_lock() and holds it
\* now, after thread 1's transaction with the unknown type returned -EINVAL.
C40_Witness ==
    /\ raced[2] /\ mutex = 2
    /\ call[1].fn = "aqc_set_ctrl_vals"
    /\ pc[1] = "idle" /\ ncalls[1] = MaxCalls
    /\ out[1].ret = -EINVAL

====
